---- MODULE Spec2Model ----
(***************************************************************************)
(* Tunnel client of the cyberdriver agent                                  *)
(* (src-tauri/src/cyberdriver/tunnel.rs) with the part of the runtime      *)
(* supervisor that spawns and cancels it (src-tauri/src/cyberdriver/mod.rs)*)
(*                                                                         *)
(* Each tunnel task is one TunnelClient::run future.  Its position is one  *)
(* of the suspension points of run / connect_and_run; every action is the  *)
(* code executed between two suspension points.                            *)
(***************************************************************************)
EXTENDS Integers, Sequences, FiniteSets, TLC

(***************************************************************************)
(* Bounds of the model                                                     *)
(***************************************************************************)
\* task slots: tunnel tasks that can be alive at once
MaxTasks == 2
\* the attempt counter (history) saturates here
MaxAttempts == 8
\* "end" frames counted on one connection
MaxEnds == 2
\* bytes buffered for one request
MaxBodyLen == 1
\* distinct idempotency key values
NumKeys == 5
\* requests handled in the idempotency-cache specification
MaxCacheRequests == 6
\* run_loop tasks of the activity coordinator that can be alive at once
MaxLoops == 2
\* requests to the local API
MaxHandlers == 2
\* platform input calls of one synthesis operation
MaxInputCalls == 2
\* the clock of the activity-coordinator specification advances by KaStep
\* seconds up to MaxKaTime
KaStep == 3
MaxKaTime == 9
\* modification times of the settings file
MaxMtime == 2
\* IDEMPOTENCY_CACHE_MAX_SIZE is 1000 in the source (tunnel.rs:59); the model
\* scales it down so that the overflow branch of the cleanup is reached.  The
\* cleanup evicts len/5 entries, so any value >= 4 evicts at least one.
IDEMPOTENCY_CACHE_MAX_SIZE == 4

(***************************************************************************)
(* Program constants                                                       *)
(***************************************************************************)
IDEMPOTENCY_CACHE_TTL == 60
INITIAL_SLEEP_TIME == 1
MAX_SLEEP_TIME == 16
JITTER_MODULUS == 1000
CHUNK_SIZE == 16384
DEFAULT_HOST == "api.cyberdesk.io"
DEFAULT_PORT == 443
DEFAULT_TARGET_PORT == 3000
\* keepalive.rs:40: threshold_minutes.max(0.1) * 60.0, at its floor
THRESHOLD_SECONDS == 6
\* keepalive.rs:154: jitter = random::<f64>() * 14.0 - 7.0, in [-7, 7)
JITTER_SPAN == 7
CLOSE_POLICY == 1008
CLOSE_NORMAL == 1000

\* the instants (seconds) the clock takes: from an entry stored at 0 or at
\* 40, ages below (40), at (60) and above (100) the TTL
TimePoints == {0, 40, 100}

Tasks == 1..MaxTasks
Keys == 1..NumKeys

\* Option<T>: None is the empty set, Some(x) the singleton
None == {}
Some(x) == {x}
Unwrap(o) == CHOOSE x \in o : TRUE

Min(a, b) == IF a <= b THEN a ELSE b
Max(a, b) == IF a >= b THEN a ELSE b

(***************************************************************************)
(* Errors.  CyberdriverError's Display is its Debug form (error.rs:20-24), *)
(* so to_string() of RuntimeError(s) is the text  RuntimeError("s").  A    *)
(* message is kept as the sequence of its parts; contains() is a search    *)
(* among the parts.                                                        *)
(***************************************************************************)
RuntimeError(parts) == <<"RuntimeError(">> \o parts \o <<")">>
SerdeJsonError(parts) == <<"SerdeJsonError(Error(">> \o parts \o <<"))">>
Contains(msg, needle) == \E i \in DOMAIN msg : msg[i] = needle

Ok == [ok |-> TRUE, err |-> <<>>]
Err(msg) == [ok |-> FALSE, err |-> msg]
AUTH_FAILURE == "AUTH_FAILURE"

VARIABLES
  tunnel,            \* CyberdriverRuntime.tunnel: Option<TunnelHandle> (the task's slot)
  sup,               \* the supervisor's position: idle, or in disconnect_tunnel's timeout(2 s, task)
  stop,              \* [task -> the CancellationToken is cancelled]
  pc,                \* [task -> suspension point of TunnelClient::run]
  run_locals,        \* [task -> sleep_time, failures_at_max, result, delay of run()]
  conn,              \* [task -> request_meta, body_buffer of connect_and_run()]
  connection_info,   \* the shared Arc<Mutex<ConnectionInfo>>
  idempotency_cache, \* [task -> TunnelClient.idempotency_cache]
  now,               \* the monotonic clock (Instant), in seconds
  hist,              \* [task -> history: what the task has received and emitted]
  ka,                \* KeepAliveManager: its KeepAliveState and its task handle
  loops,             \* [run_loop task -> position and locals of KeepAliveManager::run_loop]
  handler,           \* [request -> position of a local API request and its events so far]
  enigo,             \* ApiState.enigo, the Mutex<Enigo>: the request holding it
  xdo,               \* the key sequence last executed and the events it was parsed into
  config,            \* config.json, the build that runs and the Config it has loaded
  forward,           \* the request forwarded last: its timeout and the handler's deadline
  disk,              \* the host's files, the fs call made last and its response
  rt,                \* the runtime: which one, its settings, its local server handle
  client             \* [task -> the values its TunnelClient was built with]

\* the state of the host behind the local API's handlers
hvars == <<xdo, config, forward, disk>>

\* the activity coordinator, the local API requests, the input device, the
\* runtime's settings and the tunnel clients' copies of them
kvars == <<ka, loops, handler, enigo, hvars, rt, client>>

vars == <<tunnel, sup, stop, pc, run_locals, conn, connection_info,
          idempotency_cache, now, hist, ka, loops, handler, enigo, hvars, rt, client>>

(***************************************************************************)
(* Values on the wire                                                      *)
(***************************************************************************)
\* A websocket text payload: the literal "end", a JSON object with the
\* fields of RequestMeta / ResponseMeta, a JSON text of another shape (here
\* a JSON string), or a text that is no JSON.
EndText == [kind |-> "end", requestId |-> "", status |-> 0, headers |-> None, value |-> ""]
MetaText(rid, headers) ==
  [kind |-> "object", requestId |-> rid, status |-> 0, headers |-> headers, value |-> ""]
JsonString(s) == [kind |-> "string", requestId |-> "", status |-> 0, headers |-> None, value |-> s]
NotJson == [kind |-> "garbage", requestId |-> "", status |-> 0, headers |-> None, value |-> ""]

TextMessage(text) == [type |-> "Text", text |-> text, bytes |-> <<>>]
BinaryMessage(bytes) == [type |-> "Binary", text |-> NotJson, bytes |-> bytes]
PingMessage == [type |-> "Ping", text |-> NotJson, bytes |-> <<>>]

REQUEST_METHOD == "POST"
REQUEST_PATH == "/computer/input/mouse/click"

\* str::to_lowercase on the header names the model uses
to_lowercase(name) ==
  CASE name = "X-Idempotency-Key" -> "x-idempotency-key"
    [] name = "X-IDEMPOTENCY-KEY" -> "x-idempotency-key"
    [] name = "Content-Type" -> "content-type"
    [] OTHER -> name

\* serde_json::from_str::<RequestMeta>(&text), tunnel.rs:218.  A JSON
\* string is reported by serde as: invalid type: string "<value>", expected
\* struct RequestMeta; the value is part of the error text.
ParseMeta(text) ==
  CASE text.kind = "object" ->
         [ok |-> TRUE, err |-> <<>>,
          meta |-> Some([request_id |-> text.requestId, method |-> REQUEST_METHOD,
                         path |-> REQUEST_PATH, headers |-> text.headers])]
    [] text.kind = "string" ->
         [ok |-> FALSE, meta |-> None,
          err |-> SerdeJsonError(<<"invalid type: string ", text.value,
                                   ", expected struct RequestMeta">>)]
    [] OTHER ->
         [ok |-> FALSE, meta |-> None,
          err |-> SerdeJsonError(<<"expected value">>)]

\* get_idempotency_key: the value of a header whose lowercased name is
\* x-idempotency-key.  HashMap iteration order is unspecified, so with
\* several such headers find() may return any of them: the set of the
\* possible results (each an Option).
get_idempotency_key(headers) ==
  IF headers = None THEN {None}
  ELSE LET hits == {h \in Unwrap(headers) : to_lowercase(h[1]) = "x-idempotency-key"}
       IN IF hits = {} THEN {None} ELSE {Some(h[2]) : h \in hits}

(***************************************************************************)
(* The idempotency cache: a function from the stored keys to (ts, response)*)
(***************************************************************************)
Restrict(f, S) == [k \in S |-> f[k]]
Put(f, k, v) == [x \in DOMAIN f \cup {k} |-> IF x = k THEN v ELSE f[x]]
EmptyCache == Restrict(<<>>, {})

\* a faulty retain that drops entries after half the TTL (C6 must reject it)
Retained_HalfTTL(cache, clock) ==
  {k \in DOMAIN cache : clock - cache[k].ts <= IDEMPOTENCY_CACHE_TTL \div 2}

\* cache.retain(|_, (ts, _)| now.duration_since(*ts) <= IDEMPOTENCY_CACHE_TTL)
Retained(cache, clock) ==
  {k \in DOMAIN cache : clock - cache[k].ts <= IDEMPOTENCY_CACHE_TTL}

\* a faulty eviction that removes the youngest entries (C31 must reject it)
EvictChoices_Youngest(cache) ==
  LET n == Cardinality(DOMAIN cache) \div 5
  IN {S \in SUBSET DOMAIN cache :
        /\ Cardinality(S) = n
        /\ \A a \in S, b \in DOMAIN cache \ S : cache[a].ts >= cache[b].ts}

\* keys sorted by timestamp, the first len/5 removed; keys with equal
\* timestamps sort in HashMap order, so any of them may go first
EvictChoices(cache) ==
  LET n == Cardinality(DOMAIN cache) \div 5
  IN {S \in SUBSET DOMAIN cache :
        /\ Cardinality(S) = n
        /\ \A a \in S, b \in DOMAIN cache \ S : cache[a].ts <= cache[b].ts}

\* cleanup_idempotency_cache: the set of the maps it can leave
cleanup_idempotency_cache(cache, clock) ==
  LET kept == Restrict(cache, Retained(cache, clock))
  IN IF Cardinality(DOMAIN kept) > IDEMPOTENCY_CACHE_MAX_SIZE
     THEN {Restrict(kept, DOMAIN kept \ S) : S \in EvictChoices(kept)}
     ELSE {kept}

\* a faulty lookup that honours an entry for half the TTL only (C4 must
\* reject it)
CacheHit_HalfTTL(cache, key, clock) ==
  /\ key \in DOMAIN cache
  /\ clock - cache[key].ts < IDEMPOTENCY_CACHE_TTL \div 2

\* cache.get(&key) with ts.elapsed() < IDEMPOTENCY_CACHE_TTL
CacheHit(cache, key, clock) ==
  /\ key \in DOMAIN cache
  /\ clock - cache[key].ts < IDEMPOTENCY_CACHE_TTL

(***************************************************************************)
(* The local API call and the response built from it                      *)
(***************************************************************************)
HeaderInsert(headers, name, value) ==
  {h \in headers : h[1] # name} \cup {<<name, value>>}

ApiOk(status, headers, body) ==
  [ok |-> TRUE, status |-> status, headers |-> headers, body |-> body, err |-> ""]
ApiErr(err) == [ok |-> FALSE, status |-> 0, headers |-> {}, body |-> <<>>, err |-> err]

\* tunnel.rs:297-335: the TunnelResponse for the outcome of the HTTP call
BuildResponse(outcome, meta) ==
  IF outcome.ok
  THEN IF outcome.status >= 400 /\ outcome.body = <<>>
       THEN [status |-> outcome.status,
             headers |-> HeaderInsert(outcome.headers, "content-type", "application/json"),
             body |-> <<"Cyberdriver local API returned an error with an empty body",
                        ToString(outcome.status), meta.method, meta.path>>]
       ELSE [status |-> outcome.status, headers |-> outcome.headers, body |-> outcome.body]
  ELSE [status |-> 500,
        headers |-> {<<"content-type", "text/plain">>},
        body |-> <<outcome.err>>]

\* whether forward_request stores the response it built (tunnel.rs:322-325)
StoresResponse(outcome, key) == outcome.ok /\ key # None

\* forward_request for one choice of the idempotency key: the set of its
\* possible results.  E names the environment: the outcomes of the local
\* API call and the time the call can take.
forward_request_with(cache, meta, key, clock, E) ==
  LET cleaned == IF key # None THEN cleanup_idempotency_cache(cache, clock) ELSE {cache}
  IN UNION {
       IF key # None /\ CacheHit(c, Unwrap(key), clock)
       THEN {[response |-> c[Unwrap(key)].response, cache |-> c, now |-> clock,
              contacted |-> FALSE, key |-> key, removed |-> DOMAIN cache \ DOMAIN c]}
       ELSE {[response |-> BuildResponse(o, meta),
              cache |-> IF StoresResponse(o, key)
                        THEN Put(c, Unwrap(key),
                                 [ts |-> clock + d, response |-> BuildResponse(o, meta)])
                        ELSE c,
              now |-> clock + d, contacted |-> TRUE, key |-> key,
              removed |-> DOMAIN cache \ DOMAIN c]
             : o \in E.api, d \in E.durations}
       : c \in cleaned}

forward_request(cache, meta, clock, E) ==
  UNION {forward_request_with(cache, meta, key, clock, E)
         : key \in get_idempotency_key(meta.headers)}

(***************************************************************************)
(* send_response: the frames of one response                               *)
(***************************************************************************)
RECURSIVE Chunks_Oversize(_)
\* a faulty chunking whose frames hold one byte too many (C11 must reject it)
Chunks_Oversize(body) ==
  IF body = <<>> THEN <<>>
  ELSE LET n == Min(CHUNK_SIZE + 1, Len(body))
       IN <<SubSeq(body, 1, n)>> \o Chunks_Oversize(SubSeq(body, n + 1, Len(body)))

RECURSIVE Chunks(_)
\* response.body.chunks(16 * 1024)
Chunks(body) ==
  IF body = <<>> THEN <<>>
  ELSE LET n == Min(CHUNK_SIZE, Len(body))
       IN <<SubSeq(body, 1, n)>> \o Chunks(SubSeq(body, n + 1, Len(body)))

ResponseMetaText(meta, response) ==
  [kind |-> "object", requestId |-> meta.request_id, status |-> response.status,
   headers |-> Some(response.headers), value |-> ""]

\* a faulty framing without the terminator (C2 must reject it)
ResponseFrames_NoEnd(meta, response) ==
  <<TextMessage(ResponseMetaText(meta, response))>>
  \o [i \in 1..Len(Chunks(response.body)) |-> BinaryMessage(Chunks(response.body)[i])]

\* the frames send_response writes: the meta text, the body in chunks, "end"
ResponseFrames(meta, response) ==
  <<TextMessage(ResponseMetaText(meta, response))>>
  \o [i \in 1..Len(Chunks(response.body)) |-> BinaryMessage(Chunks(response.body)[i])]
  \o <<TextMessage(EndText)>>

\* a faulty send_response that returns before any frame is written, as if
\* the sending were left to another task (C12 must reject it)
send_response_Detached(meta, response, E) == {[sent |-> <<>>, result |-> Ok]}

\* send_response: the frames written and the Result.  Each write.send may
\* fail; the frames before the failing one have been written.
send_response(meta, response, E) ==
  LET frames == ResponseFrames(meta, response)
  IN {[sent |-> frames, result |-> Ok]}
     \cup {[sent |-> SubSeq(frames, 1, k),
            result |-> Err(RuntimeError(<<"Connection closed normally">>))]
           : k \in IF E.send_fails THEN 0..(Len(frames) - 1) ELSE {}}

(***************************************************************************)
(* Environments: the inputs a specification draws from                     *)
(***************************************************************************)
RequestIds == {"r1", "r2"}
HeaderMaps(keys) ==
  {None, Some({<<"content-type", "application/json">>})}
  \cup {Some({<<"X-Idempotency-Key", k>>}) : k \in keys}
  \cup {Some({<<"X-IDEMPOTENCY-KEY", k>>, <<"x-idempotency-key", k>>}) : k \in keys}

ApiOutcomes ==
  {ApiOk(200, {<<"content-type", "application/json">>}, <<"{", "}">>),
   ApiOk(404, {}, <<>>),
   ApiErr("operation timed out")}

\* values random::<u64>() can return (the model's integers are 32 bit)
RandomSamples == {0, 999, 1000, 123456789}

ConnectOutcomes == {"ok", "http_403", "http_500", "io_error"}
CloseFrames == {None, Some(CLOSE_NORMAL), Some(CLOSE_POLICY)}

\* the frames and outcomes of the protocol specification: time stands still
ProtocolEnv ==
  [texts |-> {EndText, NotJson, JsonString(AUTH_FAILURE)}
             \cup {MetaText(r, h) : r \in RequestIds, h \in HeaderMaps({1})},
   api |-> ApiOutcomes,
   durations |-> {0},
   send_fails |-> TRUE,
   max_ends |-> MaxEnds]

(***************************************************************************)
(* The activity coordinator (keepalive.rs)                                 *)
(*                                                                         *)
(* KeepAliveState is guarded by one mutex: every block that holds the lock *)
(* is one step.  A Notify wakes only the Notified futures that exist when  *)
(* notify_waiters() runs; `woken` is the readiness of a task's future.     *)
(***************************************************************************)
KaLoops == 1..MaxLoops
Handlers == 1..MaxHandlers

\* KeepAliveManager::new, keepalive.rs:34-57 (the settings' default has the
\* keep-alive disabled, mod.rs:63)
NewKeepAlive(enabled) ==
  [enabled |-> enabled, threshold_seconds |-> THRESHOLD_SECONDS, last_activity |-> 0,
   next_allowed |-> THRESHOLD_SECONDS, busy |-> FALSE, stop |-> FALSE, task |-> None]

InitLoop == [pc |-> "none", enabled |-> FALSE, deadline |-> 0, woken |-> FALSE,
             calls |-> 0, outcome |-> "none"]
InitHandler == [pc |-> "idle", via |-> "none", path |-> "none", calls |-> 0,
                woken |-> FALSE, log |-> <<>>]

\* schedule_notify.notify_waiters(): the loops whose Notified future exists
NotifySchedule(ls) ==
  [l \in KaLoops |->
     IF ls[l].pc \in {"wait_enabled", "sleeping"} THEN [ls[l] EXCEPT !.woken = TRUE]
     ELSE ls[l]]

\* idle_notify.notify_waiters(): the requests waiting in wait_until_idle
NotifyIdle(hs) ==
  [h \in Handlers |->
     IF hs[h].pc = "wait_idle" THEN [hs[h] EXCEPT !.woken = TRUE] ELSE hs[h]]

\* record_activity, keepalive.rs:75-80
record_activity(k) ==
  [k EXCEPT !.last_activity = now, !.next_allowed = now + k.threshold_seconds]

\* update_config, keepalive.rs:59-73 (stop is left as it is)
update_config(k, enabled) ==
  [k EXCEPT !.enabled = enabled, !.next_allowed = now + k.threshold_seconds]

\* ensure_started, keepalive.rs:94-105: with no handle held a run_loop is
\* spawned, in the lowest free slot (none in the model: no spawn)
FreeLoops(ls) == {l \in KaLoops : ls[l].pc \in {"none", "exited"}}
CanEnsureStarted(k, ls) == k.task # None \/ FreeLoops(ls) # {}
ensure_started(k, ls) ==
  IF k.task # None \/ FreeLoops(ls) = {} THEN [ka |-> k, loops |-> ls]
  ELSE LET l == CHOOSE x \in FreeLoops(ls) : \A y \in FreeLoops(ls) : x <= y
       IN [ka |-> [k EXCEPT !.task = Some(l)],
           loops |-> [ls EXCEPT ![l] = [InitLoop EXCEPT !.pc = "top"]]]

\* stop, keepalive.rs:107-117: stop and enabled are written, the waiters
\* notified and the handle taken; the loop is awaited for at most 2 s and
\* runs on detached after that
keepalive_stop(k, ls) ==
  [ka |-> [k EXCEPT !.stop = TRUE, !.enabled = FALSE, !.task = None],
   loops |-> NotifySchedule(ls)]

\* the samples of the jitter, whole seconds of [-7, 7)
JitterSamples == {-JITTER_SPAN, -1, JITTER_SPAN - 1}

\* a faulty cooldown without the clamp at zero (C18 must reject it)
Cooldown_Unclamped(threshold_seconds, jitter) == threshold_seconds + jitter

\* cooldown = (threshold_seconds + jitter).max(0.0), keepalive.rs:155
Cooldown(threshold_seconds, jitter) == Max(threshold_seconds + jitter, 0)

\* run_loop, keepalive.rs:121-127: the state is read under the lock;
\* stop ends the loop
KaLoopTop(l) ==
  /\ loops[l].pc = "top"
  /\ loops' = [loops EXCEPT ![l] =
                 IF ka.stop THEN [@ EXCEPT !.pc = "exited"]
                 ELSE [@ EXCEPT !.pc = "read", !.enabled = ka.enabled,
                                !.deadline = ka.next_allowed]]
  /\ UNCHANGED <<ka, handler, enigo, hvars, now>>
  /\ UNCHANGED <<tunnel, sup, stop, pc, run_locals, conn, connection_info,
                 idempotency_cache, hist, rt, client>>

\* keepalive.rs:128-140: with the lock released, the loop waits for a
\* schedule change when disabled, sleeps until the deadline it has read, or
\* goes on when the deadline has passed
KaLoopWait(l) ==
  /\ loops[l].pc = "read"
  /\ loops' = [loops EXCEPT ![l].woken = FALSE,
                 ![l].pc = IF ~loops[l].enabled THEN "wait_enabled"
                           ELSE IF now < loops[l].deadline THEN "sleeping"
                           ELSE "fire_check"]
  /\ UNCHANGED <<ka, handler, enigo, hvars, now>>
  /\ UNCHANGED <<tunnel, sup, stop, pc, run_locals, conn, connection_info,
                 idempotency_cache, hist, rt, client>>

\* the Notified future is ready: continue
KaLoopNotified(l) ==
  /\ loops[l].pc \in {"wait_enabled", "sleeping"}
  /\ loops[l].woken
  /\ loops' = [loops EXCEPT ![l].pc = "top", ![l].woken = FALSE]
  /\ UNCHANGED <<ka, handler, enigo, hvars, now>>
  /\ UNCHANGED <<tunnel, sup, stop, pc, run_locals, conn, connection_info,
                 idempotency_cache, hist, rt, client>>

\* the sleep branch of the select! completes
KaLoopSleepElapsed(l) ==
  /\ loops[l].pc = "sleeping"
  /\ now >= loops[l].deadline
  /\ loops' = [loops EXCEPT ![l].pc = "fire_check", ![l].woken = FALSE]
  /\ UNCHANGED <<ka, handler, enigo, hvars, now>>
  /\ UNCHANGED <<tunnel, sup, stop, pc, run_locals, conn, connection_info,
                 idempotency_cache, hist, rt, client>>

\* a faulty check before firing that reads enabled only (C34 must reject it)
KaLoopFire_IgnoresStop(l) ==
  /\ loops[l].pc = "fire_check"
  /\ IF ~ka.enabled
     THEN /\ loops' = [loops EXCEPT ![l].pc = "top"]
          /\ ka' = ka
     ELSE /\ loops' = [loops EXCEPT ![l].pc = "firing", ![l].calls = 0,
                                    ![l].outcome = "none"]
          /\ ka' = [ka EXCEPT !.busy = TRUE]
  /\ UNCHANGED <<handler, enigo, hvars, now>>
  /\ UNCHANGED <<tunnel, sup, stop, pc, run_locals, conn, connection_info,
                 idempotency_cache, hist, rt, client>>

\* keepalive.rs:142-149: under the lock, enabled and stop are read again
\* (next_allowed is not) and busy is set
KaLoopFire(l) ==
  /\ loops[l].pc = "fire_check"
  /\ IF ~ka.enabled \/ ka.stop
     THEN /\ loops' = [loops EXCEPT ![l].pc = "top"]
          /\ ka' = ka
     ELSE /\ loops' = [loops EXCEPT ![l].pc = "firing", ![l].calls = 0,
                                    ![l].outcome = "none"]
          /\ ka' = [ka EXCEPT !.busy = TRUE]
  /\ UNCHANGED <<handler, enigo, hvars, now>>
  /\ UNCHANGED <<tunnel, sup, stop, pc, run_locals, conn, connection_info,
                 idempotency_cache, hist, rt, client>>

\* perform_keepalive_action, keepalive.rs:162-200, on the blocking pool: a
\* platform call (move_mouse, button, text, key) on the worker's own Enigo
KaWorkerCall(l) ==
  /\ loops[l].pc = "firing"
  /\ loops[l].calls < MaxInputCalls
  /\ loops' = [loops EXCEPT ![l].calls = @ + 1]
  /\ UNCHANGED <<ka, handler, enigo, hvars, now>>
  /\ UNCHANGED <<tunnel, sup, stop, pc, run_locals, conn, connection_info,
                 idempotency_cache, hist, rt, client>>

\* the outcomes of the worker: Ok after its last call, Err from Enigo::new
\* or from any call, a panic before the first call (i32::MIN.abs())
WorkerOutcomes(calls) ==
  (IF calls = MaxInputCalls THEN {"ok"} ELSE {"err"})
  \cup (IF calls = 0 THEN {"panic"} ELSE {})

\* spawn_blocking(..).await returns; its Result is dropped (line 150)
KaWorkerEnd(l) ==
  /\ loops[l].pc = "firing"
  /\ \E o \in WorkerOutcomes(loops[l].calls) :
       loops' = [loops EXCEPT ![l].pc = "worker_done", ![l].outcome = o]
  /\ UNCHANGED <<ka, handler, enigo, hvars, now>>
  /\ UNCHANGED <<tunnel, sup, stop, pc, run_locals, conn, connection_info,
                 idempotency_cache, hist, rt, client>>

\* keepalive.rs:151-157: busy is reset and the next cycle scheduled
KaLoopReset(l) ==
  /\ loops[l].pc = "worker_done"
  /\ \E jitter \in JitterSamples :
       ka' = [ka EXCEPT !.busy = FALSE,
                        !.next_allowed = now + Cooldown(ka.threshold_seconds, jitter)]
  /\ loops' = [loops EXCEPT ![l].pc = "notify_idle"]
  /\ UNCHANGED <<handler, enigo, hvars, now>>
  /\ UNCHANGED <<tunnel, sup, stop, pc, run_locals, conn, connection_info,
                 idempotency_cache, hist, rt, client>>

\* keepalive.rs:158: idle_notify.notify_waiters(), then the next iteration
KaLoopNotifyIdle(l) ==
  /\ loops[l].pc = "notify_idle"
  /\ handler' = NotifyIdle(handler)
  /\ loops' = [loops EXCEPT ![l].pc = "top"]
  /\ UNCHANGED <<ka, enigo, hvars, now>>
  /\ UNCHANGED <<tunnel, sup, stop, pc, run_locals, conn, connection_info,
                 idempotency_cache, hist, rt, client>>

(***************************************************************************)
(* Requests to the local API (api.rs, input.rs) and the tunnel's calls of  *)
(* the coordinator around a forwarded request (tunnel.rs:206-259)          *)
(***************************************************************************)
\* the tunnel task handles one request at a time
TunnelBusy ==
  \E h \in Handlers : handler[h].via = "tunnel" /\ handler[h].pc # "done"

\* the tunnel task is inside forward_request or send_response, which the
\* read branch of the select! awaits inline (tunnel.rs:213-214)
RequestInFlight ==
  \E h \in Handlers :
    /\ handler[h].via = "tunnel"
    /\ handler[h].pc \in {"end", "idle_gap", "wait_idle", "checked", "handler", "input",
                           "responded"}

\* tunnel.rs:217-221: a meta frame arrives; record_activity
TunnelMeta(h) ==
  /\ handler[h].pc = "idle"
  /\ ~TunnelBusy
  /\ \E t \in Tasks : pc[t] = "open"
  /\ handler' = [handler EXCEPT ![h].pc = "meta", ![h].via = "tunnel",
                                ![h].log = <<"meta", "record_activity">>]
  /\ ka' = record_activity(ka)
  /\ loops' = NotifySchedule(loops)
  /\ UNCHANGED <<enigo, hvars, now>>
  /\ UNCHANGED <<tunnel, sup, stop, pc, run_locals, conn, connection_info,
                 idempotency_cache, hist, rt, client>>

\* tunnel.rs:209-212: "end" arrives; record_activity, then forward_request
TunnelEnd(h) ==
  /\ handler[h].pc = "meta"
  /\ handler' = [handler EXCEPT ![h].pc = "end",
                                ![h].log = @ \o <<"end", "record_activity">>]
  /\ ka' = record_activity(ka)
  /\ loops' = NotifySchedule(loops)
  /\ UNCHANGED <<enigo, hvars, now>>
  /\ UNCHANGED <<tunnel, sup, stop, pc, run_locals, conn, connection_info,
                 idempotency_cache, hist, rt, client>>

\* wait_until_idle, keepalive.rs:82-92: the busy flag is read under the
\* lock, at the call and after each wakeup
WaitIdleCheck(h) ==
  /\ \/ handler[h].pc = "end"
     \/ handler[h].pc = "wait_idle" /\ handler[h].woken
  /\ handler' = [handler EXCEPT
                   ![h].woken = FALSE,
                   ![h].pc = IF ka.busy THEN "idle_gap" ELSE "checked",
                   ![h].log = IF ka.busy THEN @ ELSE @ \o <<"wait_until_idle">>]
  /\ UNCHANGED <<ka, loops, enigo, hvars, now>>
  /\ UNCHANGED <<tunnel, sup, stop, pc, run_locals, conn, connection_info,
                 idempotency_cache, hist, rt, client>>

\* keepalive.rs:90: idle_notify.notified() is created after the lock is
\* released
WaitIdleRegister(h) ==
  /\ handler[h].pc = "idle_gap"
  /\ handler' = [handler EXCEPT ![h].pc = "wait_idle", ![h].woken = FALSE]
  /\ UNCHANGED <<ka, loops, enigo, hvars, now>>
  /\ UNCHANGED <<tunnel, sup, stop, pc, run_locals, conn, connection_info,
                 idempotency_cache, hist, rt, client>>

\* forward_request, tunnel.rs:258-285: record_activity, then the HTTP
\* request to the local API
ForwardRequest(h) ==
  /\ handler[h].pc = "checked"
  /\ handler' = [handler EXCEPT ![h].pc = "handler",
                                ![h].log = @ \o <<"record_activity", "request">>]
  /\ ka' = record_activity(ka)
  /\ loops' = NotifySchedule(loops)
  /\ UNCHANGED <<enigo, hvars, now>>
  /\ UNCHANGED <<tunnel, sup, stop, pc, run_locals, conn, connection_info,
                 idempotency_cache, hist, rt, client>>

\* a request made directly to the local API (api.rs:93-116, the router)
ApiRequest(h) ==
  /\ handler[h].pc = "idle"
  /\ handler' = [handler EXCEPT ![h].pc = "handler", ![h].via = "direct",
                                ![h].log = <<"request">>]
  /\ UNCHANGED <<ka, loops, enigo, hvars, now>>
  /\ UNCHANGED <<tunnel, sup, stop, pc, run_locals, conn, connection_info,
                 idempotency_cache, hist, rt, client>>

\* the input handlers, api.rs:262-497, call input.rs without a call of the
\* coordinator.  The portable path takes the Enigo mutex (input.rs:97, 131,
\* 146, 160, 203, 235)
HandlerLock(h) ==
  /\ handler[h].pc = "handler"
  /\ enigo = None
  /\ enigo' = Some(h)
  /\ UNCHANGED hvars
  /\ handler' = [handler EXCEPT ![h].pc = "input", ![h].path = "portable"]
  /\ UNCHANGED <<ka, loops, now>>
  /\ UNCHANGED <<tunnel, sup, stop, pc, run_locals, conn, connection_info,
                 idempotency_cache, hist, rt, client>>

\* the scancode path of type_text and execute_xdo_sequence on Windows
\* (input.rs:88-95, 104-111) returns before the mutex is taken
HandlerScancode(h) ==
  /\ handler[h].pc = "handler"
  /\ handler' = [handler EXCEPT ![h].pc = "input", ![h].path = "scancode"]
  /\ UNCHANGED <<ka, loops, enigo, hvars, now>>
  /\ UNCHANGED <<tunnel, sup, stop, pc, run_locals, conn, connection_info,
                 idempotency_cache, hist, rt, client>>

\* one platform input call of the handler
HandlerCall(h) ==
  /\ handler[h].pc = "input"
  /\ handler[h].calls < MaxInputCalls
  /\ handler' = [handler EXCEPT ![h].calls = @ + 1,
                                ![h].log = IF handler[h].calls = 0 THEN @ \o <<"input">>
                                           ELSE @]
  /\ UNCHANGED <<ka, loops, enigo, hvars, now>>
  /\ UNCHANGED <<tunnel, sup, stop, pc, run_locals, conn, connection_info,
                 idempotency_cache, hist, rt, client>>

\* the handler returns its response; the mutex guard is dropped
HandlerEnd(h) ==
  /\ handler[h].pc = "input"
  /\ handler[h].calls = MaxInputCalls
  /\ enigo' = IF enigo = Some(h) THEN None ELSE enigo
  /\ UNCHANGED hvars
  /\ handler' = [handler EXCEPT
                   ![h].pc = IF handler[h].via = "tunnel" THEN "responded" ELSE "done",
                   ![h].log = @ \o <<"response">>]
  /\ UNCHANGED <<ka, loops, now>>
  /\ UNCHANGED <<tunnel, sup, stop, pc, run_locals, conn, connection_info,
                 idempotency_cache, hist, rt, client>>

\* tunnel.rs:213-215: send_response; the next frame is read after it
TunnelSendResponse(h) ==
  /\ handler[h].pc = "responded"
  /\ handler' = [handler EXCEPT ![h].pc = "done", ![h].log = @ \o <<"send_response">>]
  /\ UNCHANGED <<ka, loops, enigo, hvars, now>>
  /\ UNCHANGED <<tunnel, sup, stop, pc, run_locals, conn, connection_info,
                 idempotency_cache, hist, rt, client>>

\* post_keepalive_activity, api.rs:726-729: record_activity on request
post_keepalive_activity ==
  /\ ka' = record_activity(ka)
  /\ loops' = NotifySchedule(loops)
  /\ UNCHANGED <<handler, enigo, hvars, now>>
  /\ UNCHANGED <<tunnel, sup, stop, pc, run_locals, conn, connection_info,
                 idempotency_cache, hist, rt, client>>

\* post_keepalive_enable and post_keepalive_disable, api.rs:731-757:
\* update_config with enabled true or false
post_keepalive_switch(enabled) ==
  /\ ka' = update_config(ka, enabled)
  /\ loops' = NotifySchedule(loops)
  /\ UNCHANGED <<handler, enigo, hvars, now>>
  /\ UNCHANGED <<tunnel, sup, stop, pc, run_locals, conn, connection_info,
                 idempotency_cache, hist, rt, client>>

\* stop_keepalive, mod.rs:391-393: KeepAliveManager::stop
stop_keepalive ==
  /\ ka' = keepalive_stop(ka, loops).ka
  /\ loops' = keepalive_stop(ka, loops).loops
  /\ UNCHANGED <<handler, enigo, hvars, now>>
  /\ UNCHANGED <<tunnel, sup, stop, pc, run_locals, conn, connection_info,
                 idempotency_cache, hist, rt, client>>

\* KeepAliveManager::ensure_started called again, mod.rs:384-389
restart_keepalive ==
  /\ ka.task = None
  /\ FreeLoops(loops) # {}
  /\ ka' = ensure_started(ka, loops).ka
  /\ loops' = ensure_started(ka, loops).loops
  /\ UNCHANGED <<handler, enigo, hvars, now>>
  /\ UNCHANGED <<tunnel, sup, stop, pc, run_locals, conn, connection_info,
                 idempotency_cache, hist, rt, client>>

\* time passes in the activity-coordinator specification, while every task
\* is at an await that can last (a sleep, a wait for a notification, the
\* blocking worker, a frame or an HTTP exchange) and none has been woken:
\* the code between two such points takes no time
KaTick ==
  /\ now + KaStep <= MaxKaTime
  /\ \A l \in KaLoops :
       /\ loops[l].pc \in {"none", "exited", "wait_enabled", "sleeping", "firing"}
       /\ ~loops[l].woken
  /\ \A h \in Handlers :
       /\ handler[h].pc \in {"idle", "meta", "wait_idle", "handler", "input", "responded",
                              "done"}
       /\ ~handler[h].woken
  /\ now' = now + KaStep
  /\ UNCHANGED <<ka, loops, handler, enigo, hvars>>
  /\ UNCHANGED <<tunnel, sup, stop, pc, run_locals, conn, connection_info,
                 idempotency_cache, hist, rt, client>>

(***************************************************************************)
(* Settings and the runtime (mod.rs, headless.rs)                          *)
(***************************************************************************)
\* CyberdriverSettings::default, mod.rs:56-75 (the fields the tunnel and the
\* keep-alive read)
DefaultSettings ==
  [host |-> DEFAULT_HOST, port |-> DEFAULT_PORT, secret |-> "",
   target_port |-> DEFAULT_TARGET_PORT, keepalive_enabled |-> FALSE,
   register_as_keepalive_for |-> None]

\* settings read from the store with an API key saved in it
StoredSettings == [DefaultSettings EXCEPT !.secret = "key1"]

\* the settings a user can save
Hosts == {DEFAULT_HOST, "staging.cyberdesk.io"}
Secrets == {"", " ", "key1"}

\* str::trim on these secrets: the one made of whitespace becomes empty
Trim(secret) == IF secret = " " THEN "" ELSE secret

\* a faulty test that does not trim (C24 must reject it)
IsBlank_NoTrim(secret) == secret = ""

\* settings.secret.trim().is_empty(), mod.rs:325, headless.rs:174, 313
IsBlank(secret) == Trim(secret) = ""

\* the error of connect_tunnel without an API key, mod.rs:326
MissingApiKey == Err(RuntimeError(<<"Missing API key">>))
SettingsChoices ==
  {[DefaultSettings EXCEPT !.host = h, !.secret = k, !.keepalive_enabled = e]
   : h \in Hosts, k \in Secrets, e \in BOOLEAN}

\* the fields compared by apply_settings, headless.rs:272-276
TunnelFields(s) ==
  <<s.host, s.port, s.secret, s.target_port, s.register_as_keepalive_for>>

\* TunnelClient::new as called by connect_tunnel, mod.rs:332-346
ClientOf(s) ==
  [host |-> s.host, port |-> s.port, secret |-> s.secret, target_port |-> s.target_port,
   keepalive |-> s.keepalive_enabled,
   register_as_keepalive_for |-> s.register_as_keepalive_for]

\* CyberdriverRuntime::new, mod.rs:173-199, HeadlessRuntime::new,
\* ---- Key sequences ------------------------------------------------------
\* The text of a sequence is split at whitespace into chords and each chord
\* at '+' into tokens (input.rs:25, 29); the model takes the text as the
\* chords and tokens it splits into.  Tokens are lowercased before they are
\* looked at (input.rs:29).
Tokens == {"ctrl", "control", "option", "shift", "Ctrl", "a", "c"}

\* str::to_lowercase on the tokens of the model
ToLowercase(token) == IF token = "Ctrl" THEN "ctrl" ELSE token

MaxChordLen == 2
MaxChords == 2

Chords == UNION {[1..n -> Tokens] : n \in 1..MaxChordLen}
Sequences == UNION {[1..n -> Chords] : n \in 0..MaxChords}

KeyEvent(key, down) == [key |-> key, down |-> down]

\* the tokens parse_xdo_sequence takes as modifiers, input.rs:32 and 37
ParserModifiers == {"ctrl", "alt", "shift", "win", "cmd", "super", "meta"}

RECURSIVE Filter(_, _)
Filter(seq, set) ==
  IF seq = <<>> THEN <<>>
  ELSE (IF Head(seq) \in set THEN <<Head(seq)>> ELSE <<>>) \o Filter(Tail(seq), set)

Reverse(seq) == [i \in 1..Len(seq) |-> seq[Len(seq) + 1 - i]]

RECURSIVE FlatMap(_, _)
FlatMap(Op(_), seq) ==
  IF seq = <<>> THEN <<>> ELSE Op(Head(seq)) \o FlatMap(Op, Tail(seq))

\* the events of one chord, input.rs:28-50, with `modifier_set` the tokens
\* that are modifiers
ChordEvents(command, modifier_set) ==
  LET parts == [i \in 1..Len(command) |-> ToLowercase(command[i])]
      all == {parts[i] : i \in 1..Len(parts)}
      modifiers == Filter(parts, modifier_set)
      keys == Filter(parts, all \ modifier_set)
      Down(m) == <<KeyEvent(m, TRUE)>>
      Up(m) == <<KeyEvent(m, FALSE)>>
      Tap(k) == <<KeyEvent(k, TRUE), KeyEvent(k, FALSE)>>
  IN FlatMap(Down, modifiers) \o FlatMap(Tap, keys) \o FlatMap(Up, Reverse(modifiers))

\* parse_xdo_sequence, input.rs:24-53: one list of events per chord
parse_xdo_sequence(sequence) ==
  [i \in 1..Len(sequence) |-> ChordEvents(sequence[i], ParserModifiers)]

NoXdo == [sequence |-> <<>>, groups |-> <<>>, calls |-> 0]
MaxXdoCalls == 1

\* execute_xdo_sequence_inner, input.rs:257-282, as far as the events it
\* walks through: the groups parse_xdo_sequence returns
execute_xdo_sequence(sequence) ==
  /\ xdo.calls < MaxXdoCalls
  /\ xdo' = [sequence |-> sequence, groups |-> parse_xdo_sequence(sequence),
             calls |-> xdo.calls + 1]

\* ---- config.json --------------------------------------------------------
\* VERSION of the build that runs, config.rs:14, and two earlier builds'
VERSION == "0.0.40"
Versions == {"0.0.38", "0.0.39", VERSION}

\* uuid::Uuid::new_v4, config.rs:151: the n-th identifier generated; two of
\* them are never equal
MaxUuids == 6
Uuid(n) == <<"uuid", n>>

\* the content of config.json: a JSON object with its version and
\* fingerprint strings (None: no such string member), or text that is no
\* JSON, as the empty file a failed fs::write leaves behind
Truncated == [json |-> FALSE]
ConfigJson(version, fingerprint) ==
  [json |-> TRUE, version |-> version, fingerprint |-> fingerprint]

\* get_config, config.rs:125-158, on the file `file` (None: missing) in the
\* build `version`, with `fresh` the identifier new_v4 would return and
\* `write_ok` whether fs::write succeeds once the file is created
get_config_with(file, version, fresh, write_ok) ==
  LET data == IF file # None /\ Unwrap(file).json THEN file ELSE None
      file_version == IF data = None THEN None ELSE Unwrap(data).version
      file_fingerprint == IF data = None THEN None ELSE Unwrap(data).fingerprint
      existing_fingerprint == file_fingerprint
      fingerprint == IF existing_fingerprint # None THEN Unwrap(existing_fingerprint)
                     ELSE fresh
      loaded == [version |-> version, fingerprint |-> fingerprint]
  IN IF file_version = Some(version) /\ file_fingerprint # None
     THEN [file |-> file, result |-> Some([version |-> version,
                                           fingerprint |-> Unwrap(file_fingerprint)]),
           generated |-> FALSE, written |-> None]
     ELSE IF write_ok
     THEN [file |-> Some(ConfigJson(Some(version), Some(fingerprint))),
           result |-> Some(loaded),
           generated |-> existing_fingerprint = None, written |-> Some(fingerprint)]
     ELSE [file |-> Some(Truncated), result |-> None,
           generated |-> existing_fingerprint = None, written |-> None]

\* `stored` is the fingerprint get_config wrote last into the file that
\* exists (None while there is no file)
NoConfig ==
  [file |-> None, version |-> VERSION, loaded |-> None, uuids |-> 0, stored |-> None]

\* a start of the runtime in the build `version`: CyberdriverRuntime::new,
\* mod.rs:175, and HeadlessRuntime::new, headless.rs:60
StartRuntime(version, write_ok) ==
  LET r == get_config_with(config.file, version, Uuid(config.uuids + 1), write_ok)
  IN /\ r.generated => config.uuids < MaxUuids
     /\ config' = [file |-> r.file, version |-> version, loaded |-> r.result,
                   uuids |-> config.uuids + (IF r.generated THEN 1 ELSE 0),
                   stored |-> IF r.written # None THEN r.written ELSE config.stored]
     /\ UNCHANGED <<tunnel, sup, stop, pc, run_locals, conn, connection_info,
                     idempotency_cache, now, hist, ka, loops, handler, enigo, rt,
                     client, xdo, forward, disk>>

\* CyberdriverRuntime::clear_config, mod.rs:214-218: clear_config_file
\* removes the file, then get_config
clear_config(write_ok) ==
  LET r == get_config_with(None, config.version, Uuid(config.uuids + 1), write_ok)
  IN /\ config.loaded # None
     /\ config.uuids < MaxUuids
     /\ config' = [config EXCEPT !.file = r.file, !.loaded = r.result,
                                 !.uuids = @ + 1, !.stored = r.written]
     /\ UNCHANGED <<tunnel, sup, stop, pc, run_locals, conn, connection_info,
                     idempotency_cache, now, hist, ka, loops, handler, enigo, rt,
                     client, xdo, forward, disk>>

\* ---- Timeouts of a forwarded request -------------------------------------
\* Times are in milliseconds.
SHELL_EXEC_PATH == "/computer/shell/powershell/exec"
DEFAULT_TIMEOUT_MS == 30000
TIMEOUT_MARGIN_MS == 3000
MIN_TIMEOUT_MS == 1000

\* the request bodies: no JSON, or a JSON object whose member timeout is a
\* number (Some) or is missing or no number (None)
MinHalfSeconds == 4
MaxHalfSeconds == 70
TimeoutValues == {500 * k : k \in -MinHalfSeconds..MaxHalfSeconds}
ShellBodies ==
  {[json |-> FALSE]} \cup {[json |-> TRUE, timeout |-> None]}
    \cup {[json |-> TRUE, timeout |-> Some(ms)] : ms \in TimeoutValues}
ForwardPaths == {SHELL_EXEC_PATH, "/computer/display/screenshot"}

\* extract_timeout, tunnel.rs:393-397
extract_timeout(body) == IF body.json THEN body.timeout ELSE None

\* the timeout of the request to the local API, tunnel.rs:283-292
forward_timeout(path, body) ==
  LET timeout == IF path = SHELL_EXEC_PATH
                 THEN IF extract_timeout(body) # None
                      THEN Unwrap(extract_timeout(body)) + TIMEOUT_MARGIN_MS
                      ELSE DEFAULT_TIMEOUT_MS
                 ELSE DEFAULT_TIMEOUT_MS
  IN Max(timeout, MIN_TIMEOUT_MS)

\* the deadline of the shell handler, api.rs:676 and 813; a body that is
\* no JSON is rejected before a command runs (None)
shell_deadline(body) ==
  IF ~body.json THEN None
  ELSE Some(Max(IF body.timeout # None THEN Unwrap(body.timeout) ELSE DEFAULT_TIMEOUT_MS,
                MIN_TIMEOUT_MS))

NoForward == [path |-> "", body |-> [json |-> FALSE], timeout |-> 0, deadline |-> None]

\* forward_request reaches the request to the local API, tunnel.rs:288-295,
\* and for the shell route the handler its recv_timeout, api.rs:813
ForwardToApi(path, body) ==
  /\ forward = NoForward
  /\ forward' = [path |-> path, body |-> body, timeout |-> forward_timeout(path, body),
                 deadline |-> IF path = SHELL_EXEC_PATH THEN shell_deadline(body) ELSE None]
  /\ UNCHANGED <<tunnel, sup, stop, pc, run_locals, conn, connection_info,
                 idempotency_cache, now, hist, ka, loops, handler, enigo, rt,
                 client, xdo, config, disk>>

\* ---- Files ----------------------------------------------------------------
\* A path is the sequence of its components ("/" the root, "~" and "." as
\* written); bytes are 0..255 and base64 text is a sequence of sextets
\* 0..63 with 64 for the padding '='.
HomeDir == <<"/", "home", "user">>
CurrentDir == <<"/", "srv">>
TransferDir == HomeDir \o <<"CyberdeskTransfers">>

FileNames == {"a.txt"}
RequestPaths ==
  UNION {{<<"/", "tmp", n>>, <<"~", n>>, <<"sub", n>>, <<".", n>>, <<n>>} : n \in FileNames}

MaxContentLen == 2
Bytes == {0, 255}
Contents == UNION {[1..n -> Bytes] : n \in 0..MaxContentLen}

PAD == 64

\* base64 STANDARD encode of one group of 1 to 3 bytes
EncodeGroup(group) ==
  LET b(i) == IF i <= Len(group) THEN group[i] ELSE 0
      v == b(1) * 65536 + b(2) * 256 + b(3)
  IN <<v \div 262144,
       (v \div 4096) % 64,
       IF Len(group) >= 2 THEN (v \div 64) % 64 ELSE PAD,
       IF Len(group) >= 3 THEN v % 64 ELSE PAD>>

RECURSIVE Base64Encode(_)
Base64Encode(bytes) ==
  IF bytes = <<>> THEN <<>>
  ELSE EncodeGroup(SubSeq(bytes, 1, Min(3, Len(bytes))))
         \o Base64Encode(SubSeq(bytes, Min(3, Len(bytes)) + 1, Len(bytes)))

\* base64 STANDARD decode of one group of 4 symbols, `last` for the final
\* group where padding may stand; None for text that is no canonical base64
DecodeGroup(group, last) ==
  LET pads == Cardinality({i \in 1..4 : group[i] = PAD})
      s(i) == IF group[i] = PAD THEN 0 ELSE group[i]
      v == s(1) * 262144 + s(2) * 4096 + s(3) * 64 + s(4)
      bytes == <<v \div 65536, (v \div 256) % 256, v % 256>>
      well_padded == \/ pads = 0
                     \/ last /\ pads = 1 /\ group[4] = PAD /\ v % 256 = 0
                     \/ last /\ pads = 2 /\ group[3] = PAD /\ group[4] = PAD
                          /\ v % 65536 = 0
  IN IF well_padded THEN Some(SubSeq(bytes, 1, 3 - pads)) ELSE None

RECURSIVE Base64Decode(_)
Base64Decode(text) ==
  IF text = <<>> THEN Some(<<>>)
  ELSE IF Len(text) < 4 THEN None
  ELSE LET head == DecodeGroup(SubSeq(text, 1, 4), Len(text) = 4)
           rest == Base64Decode(SubSeq(text, 5, Len(text)))
       IN IF head = None \/ rest = None THEN None
          ELSE Some(Unwrap(head) \o Unwrap(rest))

\* ExpandPath::expand_dir, api.rs:1121-1132: a leading ~ becomes the home
\* directory
expand_dir(path) ==
  IF path # <<>> /\ path[1] = "~" THEN HomeDir \o Tail(path) ELSE path

\* Path::parent: the path without its last component, which for a bare file
\* name is the empty path
Parent(path) == SubSeq(path, 1, Len(path) - 1)

\* the file the operating system opens for a path: a relative one is taken
\* from the current directory and "." names no step
Resolve(path) ==
  IF path # <<>> /\ path[1] = "/" THEN path
  ELSE CurrentDir \o Filter(path, {path[i] : i \in 1..Len(path)} \ {"."})

\* the path post_fs_write writes to, api.rs:592-598
WritePath(path) ==
  IF Parent(expand_dir(path)) = <<".">>
  THEN TransferDir \o <<path[Len(path)]>>
  ELSE expand_dir(path)

FsOk(body) == [ok |-> TRUE, body |-> body]
FsErr(status) == [ok |-> FALSE, status |-> status]

NoDisk == [files |-> <<>>, calls |-> 0, written |-> None, read |-> None]
MaxFsCalls == 3

\* post_fs_write, api.rs:580-621, with the payload's path, content and mode
post_fs_write(path, content, mode) ==
  LET file_data == Base64Decode(content)
      safe_path == Resolve(WritePath(path))
      old == IF safe_path \in DOMAIN disk.files THEN disk.files[safe_path] ELSE <<>>
      new == IF mode = Some("append") THEN old \o Unwrap(file_data) ELSE Unwrap(file_data)
      response == IF content = <<>> \/ file_data = None THEN FsErr(400) ELSE FsOk(<<>>)
  IN /\ disk.calls < MaxFsCalls
     /\ disk' = [files |-> IF response.ok
                           THEN [f \in DOMAIN disk.files \cup {safe_path} |->
                                   IF f = safe_path THEN new ELSE disk.files[f]]
                           ELSE disk.files,
                 calls |-> disk.calls + 1,
                 written |-> Some([path |-> path, content |-> content, mode |-> mode,
                                   safe_path |-> safe_path, response |-> response]),
                 read |-> None]
     /\ UNCHANGED <<tunnel, sup, stop, pc, run_locals, conn, connection_info,
                    idempotency_cache, now, hist, ka, loops, handler, enigo, rt,
                    client, xdo, config, forward>>

\* get_fs_read, api.rs:549-571
get_fs_read(path) ==
  LET safe_path == Resolve(expand_dir(path))
      response == IF safe_path \notin DOMAIN disk.files THEN FsErr(404)
                  ELSE FsOk([path |-> safe_path,
                             content |-> Base64Encode(disk.files[safe_path]),
                             size |-> Len(disk.files[safe_path])])
  IN /\ disk.calls < MaxFsCalls
     /\ disk' = [disk EXCEPT !.calls = @ + 1,
                             !.read = Some([path |-> path, response |-> response])]
     /\ UNCHANGED <<tunnel, sup, stop, pc, run_locals, conn, connection_info,
                    idempotency_cache, now, hist, ka, loops, handler, enigo, rt,
                    client, xdo, config, forward>>

InitHost ==
  /\ xdo = NoXdo
  /\ config = NoConfig
  /\ forward = NoForward
  /\ disk = NoDisk

\* headless.rs:59-81; `restart` is apply_settings' tunnel_changed while it
\* waits in disconnect_tunnel, `result` the Result of the last command,
\* `file` the settings file the headless service polls (absent here)
\* and `last_error` the runtime's own field (mod.rs:170, None at mod.rs:194,
\* assigned nowhere)
InitRuntime(kind, settings) ==
  [kind |-> kind, settings |-> settings, server |-> None, restart |-> FALSE,
   result |-> Ok, settings_mtime |-> None, last_error |-> None,
   file |-> [mtime |-> None, settings |-> DefaultSettings]]

(***************************************************************************)
(* State                                                                   *)
(***************************************************************************)
NoResult == [ok |-> TRUE, err |-> <<"none">>]
InitRunLocals ==
  [sleep_time |-> INITIAL_SLEEP_TIME, failures_at_max |-> 0, result |-> NoResult, delay |-> 0]
InitConn == [request_meta |-> None, body_buffer |-> <<>>]
InitHist ==
  [attempts |-> 0, outcome |-> "none", ends_received |-> 0, ends_emitted |-> 0,
   requests_closed |-> 0, sent |-> <<>>, last |-> None, answered |-> EmptyCache,
   auth_exit |-> FALSE]
DefaultConnectionInfo ==
  [host |-> None, port |-> None, connected |-> FALSE, last_error |-> None]

InitProcess ==
  /\ tunnel = None
  /\ sup = [pc |-> "idle", task |-> None]
  /\ stop = [t \in Tasks |-> FALSE]
  /\ pc = [t \in Tasks |-> "none"]
  /\ run_locals = [t \in Tasks |-> InitRunLocals]
  /\ conn = [t \in Tasks |-> InitConn]
  /\ connection_info = DefaultConnectionInfo
  /\ idempotency_cache = [t \in Tasks |-> EmptyCache]
  /\ now = 0
  /\ hist = [t \in Tasks |-> InitHist]
  /\ ka = NewKeepAlive(FALSE)
  /\ loops = [l \in KaLoops |-> InitLoop]
  /\ handler = [h \in Handlers |-> InitHandler]
  /\ enigo = None
  /\ rt = InitRuntime("app", StoredSettings)
  /\ client = [t \in Tasks |-> None]

Init == InitProcess /\ InitHost

(***************************************************************************)
(* The supervisor (mod.rs)                                                 *)
(***************************************************************************)
FreeSlots == {t \in Tasks : pc[t] \in {"none", "done"}}

\* the spawn of connect_tunnel, mod.rs:328-356: a new TunnelClient built
\* from the settings (its own idempotency cache, the shared ConnectionInfo)
TunnelSpawn(t, settings) ==
  /\ tunnel' = Some(t)
  /\ stop' = [stop EXCEPT ![t] = FALSE]
  /\ pc' = [pc EXCEPT ![t] = "loop"]
  /\ run_locals' = [run_locals EXCEPT ![t] = InitRunLocals]
  /\ conn' = [conn EXCEPT ![t] = InitConn]
  /\ idempotency_cache' = [idempotency_cache EXCEPT ![t] = EmptyCache]
  /\ hist' = [hist EXCEPT ![t] = InitHist]
  /\ client' = [client EXCEPT ![t] = Some(ClientOf(settings))]

\* start_keepalive_if_enabled, mod.rs:384-389
start_keepalive_if_enabled(k, ls, settings) ==
  IF settings.keepalive_enabled THEN ensure_started(k, ls) ELSE [ka |-> k, loops |-> ls]

\* connect_tunnel, mod.rs:320-371: Ok at once with a handle held, an error
\* without an API key; otherwise the local server is started if it is not
\* running, the tunnel task is spawned and the keep-alive started if the
\* settings enable it
connect_tunnel ==
  /\ sup.pc = "idle"
  /\ IF tunnel # None
     THEN /\ rt' = [rt EXCEPT !.result = Ok]
          /\ UNCHANGED <<tunnel, stop, pc, run_locals, conn, idempotency_cache, hist,
                         client, ka, loops>>
     ELSE IF IsBlank(rt.settings.secret)
     THEN /\ rt' = [rt EXCEPT !.result = MissingApiKey]
          /\ UNCHANGED <<tunnel, stop, pc, run_locals, conn, idempotency_cache, hist,
                         client, ka, loops>>
     ELSE /\ FreeSlots # {}
          /\ rt.settings.keepalive_enabled => CanEnsureStarted(ka, loops)
          /\ LET t == CHOOSE x \in FreeSlots : \A y \in FreeSlots : x <= y
                 started == start_keepalive_if_enabled(ka, loops, rt.settings)
             IN /\ TunnelSpawn(t, rt.settings)
                /\ ka' = started.ka
                /\ loops' = started.loops
          /\ rt' = [rt EXCEPT !.server = Some(rt.settings.target_port), !.result = Ok]
  /\ UNCHANGED <<sup, connection_info, now, handler, enigo, hvars>>

\* disconnect_tunnel, mod.rs:373-376: take the handle if there is one,
\* cancel the token, then wait for the task, at most 2 s
DisconnectStart ==
  /\ stop' = IF tunnel = None THEN stop ELSE [stop EXCEPT ![Unwrap(tunnel)] = TRUE]
  /\ sup' = [pc |-> "disconnecting", task |-> tunnel]
  /\ tunnel' = None
  /\ UNCHANGED <<pc, run_locals, conn, connection_info, idempotency_cache, now, hist,
                 handler, enigo, hvars, client>>

disconnect_tunnel ==
  /\ sup.pc = "idle"
  /\ DisconnectStart
  /\ UNCHANGED <<ka, loops, rt>>

\* the rest of disconnect_tunnel, mod.rs:377-381: the keep-alive is stopped.
\* When apply_settings called it, headless.rs:309-318 follow: the local
\* server is stopped, then started again alone if the new secret is empty,
\* and otherwise connect_tunnel runs
DisconnectEnd ==
  LET stopped == keepalive_stop(ka, loops) IN
  /\ sup' = [pc |-> "idle", task |-> None]
  /\ IF rt.restart /\ ~IsBlank(rt.settings.secret)
     THEN /\ FreeSlots # {}
          /\ rt.settings.keepalive_enabled => CanEnsureStarted(stopped.ka, stopped.loops)
          /\ LET t == CHOOSE x \in FreeSlots : \A y \in FreeSlots : x <= y
                 started == start_keepalive_if_enabled(stopped.ka, stopped.loops,
                                                       rt.settings)
             IN /\ TunnelSpawn(t, rt.settings)
                /\ ka' = started.ka
                /\ loops' = started.loops
          /\ rt' = [rt EXCEPT !.restart = FALSE, !.result = Ok,
                              !.server = Some(rt.settings.target_port)]
     ELSE /\ ka' = stopped.ka
          /\ loops' = stopped.loops
          /\ rt' = [rt EXCEPT !.restart = FALSE, !.result = Ok,
                              !.server = IF rt.restart THEN Some(rt.settings.target_port)
                                         ELSE @]
          /\ UNCHANGED <<tunnel, stop, pc, run_locals, conn, idempotency_cache, hist,
                         client>>
  /\ UNCHANGED <<connection_info, now, handler, enigo, hvars>>

\* there was no task, or the task ended within the 2 s
disconnect_joined ==
  /\ sup.pc = "disconnecting"
  /\ IF sup.task = None THEN TRUE ELSE pc[Unwrap(sup.task)] = "done"
  /\ DisconnectEnd

\* the 2 s elapsed first: the JoinHandle is dropped and the task runs on
disconnect_timed_out ==
  /\ sup.pc = "disconnecting"
  /\ sup.task # None
  /\ pc[Unwrap(sup.task)] # "done"
  /\ DisconnectEnd

\* the keep-alive policy of update_settings and apply_settings (mod.rs:242-
\* 252, headless.rs:287-299): update_config, then ensure_started or stop
ApplyKeepAlive(next) ==
  LET k == update_config(ka, next.keepalive_enabled)
      ls == NotifySchedule(loops)
  IN IF next.keepalive_enabled THEN ensure_started(k, ls) ELSE keepalive_stop(k, ls)

\* update_settings of the application, mod.rs:225-259: the settings are
\* stored and replaced and the keep-alive policy applied; the tunnel is not
\* looked at
update_settings(next) ==
  /\ rt.kind = "app"
  /\ sup.pc = "idle"
  /\ next.keepalive_enabled => CanEnsureStarted(ka, loops)
  /\ rt' = [rt EXCEPT !.settings = next, !.result = Ok]
  /\ ka' = ApplyKeepAlive(next).ka
  /\ loops' = ApplyKeepAlive(next).loops
  /\ UNCHANGED <<tunnel, sup, stop, pc, run_locals, conn, connection_info,
                 idempotency_cache, now, hist, handler, enigo, hvars, client>>

\* apply_settings of the headless service, headless.rs:270-320: as above,
\* and when a tunnel field differs, disconnect_tunnel and what follows it
ApplySettings(runtime, next) ==
  /\ next.keepalive_enabled => CanEnsureStarted(ka, loops)
  /\ ka' = ApplyKeepAlive(next).ka
  /\ loops' = ApplyKeepAlive(next).loops
  /\ IF TunnelFields(rt.settings) # TunnelFields(next)
     THEN /\ rt' = [runtime EXCEPT !.settings = next, !.restart = TRUE]
          /\ DisconnectStart
     ELSE /\ rt' = [runtime EXCEPT !.settings = next, !.result = Ok]
          /\ UNCHANGED <<tunnel, sup, stop, pc, run_locals, conn, connection_info,
                         idempotency_cache, now, hist, handler, enigo, hvars, client>>

apply_settings(next) ==
  /\ rt.kind = "headless"
  /\ sup.pc = "idle"
  /\ ApplySettings(rt, next)

\* the settings file is removed; fs::metadata fails from then on,
\* headless.rs:334-337
RemoveSettingsFile ==
  /\ rt.kind = "headless"
  /\ rt.file.mtime # None
  /\ rt' = [rt EXCEPT !.file.mtime = None]
  /\ UNCHANGED <<tunnel, sup, stop, pc, run_locals, conn, connection_info,
                 idempotency_cache, now, hist, handler, enigo, hvars, client, ka, loops>>

\* a faulty comparison that only looks for a missing file (C25 must reject
\* it)
MtimeUnchanged_OnlyMissing(next_mtime, settings_mtime) == next_mtime = None

\* next_mtime.is_none() || next_mtime == self.settings_mtime, headless.rs:102
MtimeUnchanged(next_mtime, settings_mtime) ==
  next_mtime = None \/ next_mtime = settings_mtime

\* refresh_settings_if_changed, headless.rs:100-108: nothing when the file
\* is missing or has the mtime seen last; otherwise the mtime is kept and
\* the file's settings are applied
refresh_settings_if_changed ==
  /\ rt.kind = "headless"
  /\ sup.pc = "idle"
  /\ IF MtimeUnchanged(rt.file.mtime, rt.settings_mtime)
     THEN /\ rt' = [rt EXCEPT !.result = Ok]
          /\ UNCHANGED <<tunnel, sup, stop, pc, run_locals, conn, connection_info,
                         idempotency_cache, now, hist, handler, enigo, hvars, client, ka, loops>>
     ELSE ApplySettings([rt EXCEPT !.settings_mtime = rt.file.mtime], rt.file.settings)

\* the settings file is written (by the application or by hand): new
\* content, and an mtime that is the old one when the write falls into the
\* same tick of the file system's clock
WriteSettingsFile(next, mtime) ==
  /\ rt.kind = "headless"
  /\ IF rt.file.mtime = None THEN TRUE ELSE mtime >= Unwrap(rt.file.mtime)
  /\ mtime <= MaxMtime
  /\ rt' = [rt EXCEPT !.file = [mtime |-> Some(mtime), settings |-> next]]
  /\ UNCHANGED <<tunnel, sup, stop, pc, run_locals, conn, connection_info,
                 idempotency_cache, now, hist, handler, enigo, hvars, client, ka, loops>>

(***************************************************************************)
(* TunnelClient::run (tunnel.rs:87-129)                                    *)
(***************************************************************************)
\* the top of the loop: the stop check, then connect_and_run up to its
\* await of connect_async_with_config (lines 90-97, 132-168)
RunLoopTop(t) ==
  /\ pc[t] = "loop"
  /\ IF stop[t]
     THEN /\ connection_info' = [connection_info EXCEPT !.connected = FALSE]
          /\ pc' = [pc EXCEPT ![t] = "done"]
          /\ hist' = hist
     ELSE /\ connection_info' = [connection_info EXCEPT
                                   !.host = Some(Unwrap(client[t]).host),
                                   !.port = Some(Unwrap(client[t]).port)]
          /\ pc' = [pc EXCEPT ![t] = "connecting"]
          /\ hist' = [u \in Tasks |->
                        IF u = t
                        THEN [hist[u] EXCEPT !.attempts = Min(@ + 1, MaxAttempts),
                                             !.auth_exit = FALSE]
                        ELSE [hist[u] EXCEPT !.auth_exit = FALSE]]
  /\ UNCHANGED <<tunnel, sup, stop, run_locals, conn, idempotency_cache, now>>
  /\ UNCHANGED kvars

\* connect_and_run returns `result` ; its locals die
Return(t, result) ==
  /\ run_locals' = [run_locals EXCEPT ![t].result = result]
  /\ pc' = [pc EXCEPT ![t] = "returned"]
  /\ conn' = [conn EXCEPT ![t] = InitConn]
  /\ UNCHANGED kvars

\* the error connect_and_run returns for a failed upgrade (lines 169-179)
ConnectError(outcome) ==
  IF outcome = "http_403"
  THEN RuntimeError(<<AUTH_FAILURE>>)
  ELSE RuntimeError(<<"Connection failed: ", outcome>>)

\* connect_async_with_config returns (lines 169-190)
ConnectDone(t) ==
  /\ pc[t] = "connecting"
  /\ \E outcome \in ConnectOutcomes :
       IF outcome = "ok"
       THEN /\ connection_info' = [connection_info EXCEPT !.connected = TRUE,
                                                          !.last_error = None]
            /\ pc' = [pc EXCEPT ![t] = "open"]
            /\ conn' = [conn EXCEPT ![t] = InitConn]
            /\ hist' = [hist EXCEPT ![t].outcome = "none",
                                    ![t].ends_received = 0, ![t].ends_emitted = 0,
                                    ![t].requests_closed = 0, ![t].sent = <<>>,
                                    ![t].last = None]
            /\ UNCHANGED run_locals
       ELSE /\ Return(t, Err(ConnectError(outcome)))
            /\ hist' = [hist EXCEPT ![t].outcome = outcome]
            /\ UNCHANGED connection_info
  /\ UNCHANGED <<tunnel, sup, stop, idempotency_cache, now>>
  /\ UNCHANGED kvars

\* the bookkeeping of failures_at_max (lines 115-120)
NextFailuresAtMax(sleep_time, failures_at_max) ==
  IF sleep_time >= MAX_SLEEP_TIME
  THEN IF failures_at_max + 1 >= 3 THEN 0 ELSE failures_at_max + 1
  ELSE failures_at_max

\* Duration::from_millis((sleep_time * 1000) + jitter), jitter = random % 1000
Delay(sleep_time, random) == (sleep_time * 1000) + (random % JITTER_MODULUS)

\* a faulty doubling without the cap (C10 must reject it)
NextSleepTime_Uncapped(sleep_time) == sleep_time * 2

\* (sleep_time * 2).min(16)
NextSleepTime(sleep_time) == Min(sleep_time * 2, MAX_SLEEP_TIME)

\* whether run() leaves its loop on this error (line 111)
IsAuthFailure(result) == ~result.ok /\ Contains(result.err, AUTH_FAILURE)

\* after connect_and_run has returned: lines 98-122, up to the sleep
RunAfterConnect(t) ==
  /\ pc[t] = "returned"
  /\ LET result == run_locals[t].result
     IN IF stop[t]
        THEN /\ connection_info' = [connection_info EXCEPT !.connected = FALSE]
             /\ pc' = [pc EXCEPT ![t] = "done"]
             /\ run_locals' = [run_locals EXCEPT ![t].result = NoResult]
             /\ hist' = hist
        ELSE /\ connection_info' =
                  [connection_info EXCEPT !.connected = FALSE,
                     !.last_error = IF result.ok THEN None ELSE Some(result.err)]
             /\ IF IsAuthFailure(result)
                THEN /\ pc' = [pc EXCEPT ![t] = "done"]
                     /\ run_locals' = [run_locals EXCEPT ![t].result = NoResult]
                     /\ hist' = [hist EXCEPT ![t].auth_exit = TRUE]
                ELSE /\ pc' = [pc EXCEPT ![t] = "sleeping"]
                     /\ hist' = hist
                     /\ \E random \in RandomSamples :
                          run_locals' = [run_locals EXCEPT
                            ![t].result = NoResult,
                            ![t].failures_at_max =
                               NextFailuresAtMax(run_locals[t].sleep_time, @),
                            ![t].delay = Delay(run_locals[t].sleep_time, random)]
  /\ UNCHANGED <<tunnel, sup, stop, conn, idempotency_cache, now>>
  /\ UNCHANGED kvars

\* a faulty loop that starts again from 1 s once a connection had been
\* established (C39 must reject it)
SleepElapsed_ResetAfterOpen(t) ==
  /\ pc[t] = "sleeping"
  /\ run_locals' = [run_locals EXCEPT
                      ![t].sleep_time = IF hist[t].outcome \in ConnectOutcomes
                                        THEN NextSleepTime(@) ELSE 1,
                      ![t].delay = 0]
  /\ pc' = [pc EXCEPT ![t] = "loop"]
  /\ UNCHANGED <<tunnel, sup, stop, conn, connection_info, idempotency_cache, now, hist>>
  /\ UNCHANGED kvars

\* tokio::time::sleep(delay) completes (lines 125-127)
SleepElapsed(t) ==
  /\ pc[t] = "sleeping"
  /\ run_locals' = [run_locals EXCEPT ![t].sleep_time = NextSleepTime(@), ![t].delay = 0]
  /\ pc' = [pc EXCEPT ![t] = "loop"]
  /\ UNCHANGED <<tunnel, sup, stop, conn, connection_info, idempotency_cache, now, hist>>
  /\ UNCHANGED kvars

\* stop.cancelled() wins the select (line 124)
SleepCancelled(t) ==
  /\ pc[t] = "sleeping"
  /\ stop[t]
  /\ run_locals' = [run_locals EXCEPT ![t].delay = 0]
  /\ pc' = [pc EXCEPT ![t] = "done"]
  /\ UNCHANGED <<tunnel, sup, stop, conn, connection_info, idempotency_cache, now, hist>>
  /\ UNCHANGED kvars

(***************************************************************************)
(* The request loop of connect_and_run (tunnel.rs:192-240)                 *)
(***************************************************************************)
\* stop.cancelled() wins the select: break, Ok(()) (lines 194, 241)
StopBreak(t) ==
  /\ pc[t] = "open"
  /\ stop[t]
  /\ Return(t, Ok)
  /\ hist' = [hist EXCEPT ![t].outcome = "stopped", ![t].sent = <<>>]
  /\ UNCHANGED <<tunnel, sup, stop, connection_info, idempotency_cache, now>>
  /\ UNCHANGED kvars

\* ping.tick(): the Ping is written, or the write fails (lines 195-199)
PingTick(t) ==
  /\ pc[t] = "open"
  /\ \/ /\ hist' = [hist EXCEPT ![t].sent = <<PingMessage>>]
        /\ UNCHANGED <<pc, run_locals, conn>>
     \/ /\ Return(t, Err(RuntimeError(<<"Ping failed: ", "Connection reset">>)))
        /\ hist' = [hist EXCEPT ![t].outcome = "ping_failed", ![t].sent = <<>>]
  /\ UNCHANGED <<tunnel, sup, stop, connection_info, idempotency_cache, now>>
  /\ UNCHANGED kvars

\* read.next() yields Some(Err(err)) or None (lines 203-204)
ReadFailed(t) ==
  /\ pc[t] = "open"
  /\ \E e \in {"read_error", "eof"} :
       /\ Return(t, Err(RuntimeError(IF e = "eof" THEN <<"Connection closed">>
                                     ELSE <<"Connection reset without closing handshake">>)))
       /\ hist' = [hist EXCEPT ![t].outcome = e, ![t].sent = <<>>]
  /\ UNCHANGED <<tunnel, sup, stop, connection_info, idempotency_cache, now>>
  /\ UNCHANGED kvars

\* Message::Close(frame) (lines 228-235)
CloseError(frame) ==
  IF frame # None /\ Unwrap(frame) = CLOSE_POLICY
  THEN RuntimeError(<<AUTH_FAILURE>>)
  ELSE RuntimeError(<<"Connection closed">>)

RecvClose(t) ==
  /\ pc[t] = "open"
  /\ \E frame \in CloseFrames :
       /\ Return(t, Err(CloseError(frame)))
       /\ hist' = [hist EXCEPT ![t].sent = <<>>,
                     ![t].outcome = IF frame = Some(CLOSE_POLICY) THEN "close_1008"
                                    ELSE "close_other"]
  /\ UNCHANGED <<tunnel, sup, stop, connection_info, idempotency_cache, now>>
  /\ UNCHANGED kvars

\* Message::Binary(bytes) (lines 225-227)
RecvBinary(t) ==
  /\ pc[t] = "open"
  /\ Len(conn[t].body_buffer) < MaxBodyLen
  /\ conn' = [conn EXCEPT ![t].body_buffer = @ \o <<"b">>]
  /\ UNCHANGED <<tunnel, sup, stop, pc, run_locals, connection_info,
                 idempotency_cache, now, hist>>
  /\ UNCHANGED kvars

CountEnds(frames) ==
  Cardinality({i \in DOMAIN frames : frames[i] = TextMessage(EndText)})

\* the clock's next instant
LaterTimes == {p \in TimePoints : p > now}
NextTime == CHOOSE p \in LaterTimes : \A q \in LaterTimes : p <= q
TimeSteps == IF LaterTimes = {} THEN {} ELSE {NextTime - now}

\* history: per key, the last answer built by a call of the local API, while
\* it is younger than the TTL
PruneAnswered(answered, clock) ==
  Restrict(answered, {k \in DOMAIN answered :
                        clock - answered[k].at < IDEMPOTENCY_CACHE_TTL})

\* the "end" frame with a request pending: forward_request, send_response,
\* body_buffer.clear() (lines 209-216)
HandleRequest(t, E) ==
  LET meta == Unwrap(conn[t].request_meta)
  IN \E f \in forward_request(idempotency_cache[t], meta, now, E) :
     \E s \in send_response(meta, f.response, E) :
       /\ idempotency_cache' = [idempotency_cache EXCEPT ![t] = f.cache]
       /\ now' = f.now
       /\ hist' = [hist EXCEPT
            ![t].ends_received = @ + 1,
            ![t].requests_closed = @ + 1,
            ![t].ends_emitted = @ + CountEnds(s.sent),
            ![t].sent = s.sent,
            ![t].outcome = IF s.result.ok THEN @ ELSE "send_failed",
            ![t].last = Some([key |-> f.key, contacted |-> f.contacted,
                              response |-> f.response, removed |-> f.removed]),
            ![t].answered =
               IF f.key = None \/ ~f.contacted THEN PruneAnswered(@, f.now)
               ELSE Put(PruneAnswered(@, f.now), Unwrap(f.key),
                        [at |-> f.now, response |-> f.response])]
       /\ IF s.result.ok
          THEN /\ conn' = [conn EXCEPT ![t] = InitConn]
               /\ UNCHANGED <<pc, run_locals>>
          ELSE Return(t, s.result)
  /\ UNCHANGED kvars

\* Message::Text(text) (lines 207-224)
RecvText(t, E) ==
  /\ pc[t] = "open"
  /\ \E text \in E.texts :
       IF text = EndText
       THEN /\ hist[t].ends_received < E.max_ends
            /\ IF conn[t].request_meta # None
               THEN HandleRequest(t, E)
               ELSE /\ hist' = [hist EXCEPT ![t].ends_received = @ + 1, ![t].sent = <<>>]
                    /\ UNCHANGED <<pc, run_locals, conn, idempotency_cache, now>>
       ELSE /\ IF ParseMeta(text).ok
               THEN /\ conn' = [conn EXCEPT ![t] = [request_meta |-> ParseMeta(text).meta,
                                                    body_buffer |-> <<>>]]
                    /\ hist' = [hist EXCEPT ![t].sent = <<>>]
                    /\ UNCHANGED <<pc, run_locals>>
               ELSE /\ Return(t, Err(ParseMeta(text).err))
                    /\ hist' = [hist EXCEPT ![t].outcome = "bad_meta", ![t].sent = <<>>]
            /\ UNCHANGED <<idempotency_cache, now>>
  /\ UNCHANGED <<tunnel, sup, stop, connection_info>>
  /\ UNCHANGED kvars

\* time passes
Tick ==
  /\ LaterTimes # {}
  /\ now' = NextTime
  /\ hist' = [t \in Tasks |->
                [hist[t] EXCEPT !.answered = PruneAnswered(@, NextTime)]]
  /\ UNCHANGED <<tunnel, sup, stop, pc, run_locals, conn, connection_info,
                 idempotency_cache>>
  /\ UNCHANGED kvars

(***************************************************************************)
(* Specifications                                                          *)
(***************************************************************************)
\* The tunnel protocol and the run loop: one supervisor, whose
\* disconnect_tunnel sees its task end within the 2 s.
Next ==
  \/ connect_tunnel
  \/ disconnect_tunnel
  \/ disconnect_joined
  \/ \E t \in Tasks :
       \/ RunLoopTop(t)
       \/ ConnectDone(t)
       \/ RunAfterConnect(t)
       \/ SleepElapsed(t)
       \/ SleepCancelled(t)
       \/ StopBreak(t)
       \/ PingTick(t)
       \/ ReadFailed(t)
       \/ RecvClose(t)
       \/ RecvBinary(t)
       \/ RecvText(t, ProtocolEnv)

Spec == Init /\ [][Next]_vars

\* The supervisor with the 2 s timeout of disconnect_tunnel: a task that does
\* not end in time (it is inside connect_async, which is not raced against
\* the stop token) runs on while connect_tunnel spawns the next one.  The
\* peer sends no requests in this specification.
NextSup ==
  \/ connect_tunnel
  \/ disconnect_tunnel
  \/ disconnect_joined
  \/ disconnect_timed_out
  \/ \E t \in Tasks :
       \/ RunLoopTop(t)
       \/ ConnectDone(t)
       \/ RunAfterConnect(t)
       \/ SleepElapsed(t)
       \/ SleepCancelled(t)
       \/ StopBreak(t)
       \/ ReadFailed(t)
       \/ RecvClose(t)

SpecSup == Init /\ [][NextSup]_vars

\* The framing of responses: one connection, one request, and local API
\* responses whose bodies are empty, shorter than a chunk, exactly one or two
\* chunks long, and one byte longer than those.
BodyLengths == {0, 1, CHUNK_SIZE - 1, CHUNK_SIZE, CHUNK_SIZE + 1, 2 * CHUNK_SIZE,
                2 * CHUNK_SIZE + 1}
BodyOfLength(n, first) == [i \in 1..n |-> (first + i) % 256]

SendEnv ==
  [texts |-> {EndText} \cup {MetaText(r, h) : r \in RequestIds, h \in HeaderMaps({1})},
   api |-> {ApiOk(st, {<<"content-type", "application/octet-stream">>}, BodyOfLength(n, first))
            : st \in {200, 404}, n \in BodyLengths, first \in {0, 7}}
           \cup {ApiErr("operation timed out")},
   durations |-> {0},
   send_fails |-> TRUE,
   max_ends |-> 1]

NextSend == \E t \in Tasks : RecvText(t, SendEnv)

\* The idempotency cache: one connection that stays open, keyed requests
\* with many key values, and time passing.  Key values are only compared
\* for equality, so a key the state does not hold stands for every such
\* key: the requests use the keys the state holds and the next one.  The
\* local API stamps its response with the time of the call, so that two
\* calls at different times are told apart.
PendingKeys(t) ==
  IF conn[t].request_meta = None THEN {}
  ELSE UNION get_idempotency_key(Unwrap(conn[t].request_meta).headers)

KeysInState ==
  UNION {DOMAIN idempotency_cache[t] \cup DOMAIN hist[t].answered \cup PendingKeys(t)
         : t \in Tasks}

CacheKeys == {k \in Keys : \A j \in 1..(k - 2) : j \in KeysInState}

CacheEnv ==
  [texts |-> {EndText}
             \cup {MetaText("r1", Some({<<"X-Idempotency-Key", k>>})) : k \in CacheKeys},
   api |-> {ApiOk(200, {<<"content-type", "application/json">>}, <<"t", ToString(now)>>)},
   durations |-> {0} \cup TimeSteps,
   send_fails |-> FALSE,
   max_ends |-> MaxCacheRequests]

\* the state after connect_tunnel, RunLoopTop and a successful ConnectDone
InitCache ==
  /\ tunnel = Some(1)
  /\ sup = [pc |-> "idle", task |-> None]
  /\ stop = [t \in Tasks |-> FALSE]
  /\ pc = [t \in Tasks |-> IF t = 1 THEN "open" ELSE "none"]
  /\ run_locals = [t \in Tasks |-> InitRunLocals]
  /\ conn = [t \in Tasks |-> InitConn]
  /\ connection_info = [host |-> Some(DEFAULT_HOST), port |-> Some(DEFAULT_PORT),
                        connected |-> TRUE, last_error |-> None]
  /\ idempotency_cache = [t \in Tasks |-> EmptyCache]
  /\ now = 0
  /\ hist = [t \in Tasks |-> IF t = 1 THEN [InitHist EXCEPT !.attempts = 1] ELSE InitHist]
  /\ ka = NewKeepAlive(FALSE)
  /\ loops = [l \in KaLoops |-> InitLoop]
  /\ handler = [h \in Handlers |-> InitHandler]
  /\ enigo = None
  /\ InitHost
  /\ rt = [InitRuntime("app", StoredSettings) EXCEPT !.server = Some(DEFAULT_TARGET_PORT)]
  /\ client = [t \in Tasks |-> IF t = 1 THEN Some(ClientOf(StoredSettings)) ELSE None]

NextCache ==
  \/ \E t \in Tasks : RecvText(t, CacheEnv)
  \/ Tick

SpecCache == InitCache /\ [][NextCache]_vars

\* the framing specification starts from the same open connection
SpecSend == InitCache /\ [][NextSend]_vars

\* The activity coordinator with keep-alive enabled and its loop running
\* (the state after connect_tunnel with settings.keepalive_enabled and an
\* established connection), two requests to the local API, each through the
\* tunnel or direct, remote record-activity calls and time passing.
KeepAliveSettings == [StoredSettings EXCEPT !.keepalive_enabled = TRUE]

InitKa ==
  /\ tunnel = Some(1)
  /\ sup = [pc |-> "idle", task |-> None]
  /\ stop = [t \in Tasks |-> FALSE]
  /\ pc = [t \in Tasks |-> IF t = 1 THEN "open" ELSE "none"]
  /\ run_locals = [t \in Tasks |-> InitRunLocals]
  /\ conn = [t \in Tasks |-> InitConn]
  /\ connection_info = [host |-> Some(DEFAULT_HOST), port |-> Some(DEFAULT_PORT),
                        connected |-> TRUE, last_error |-> None]
  /\ idempotency_cache = [t \in Tasks |-> EmptyCache]
  /\ now = 0
  /\ hist = [t \in Tasks |-> IF t = 1 THEN [InitHist EXCEPT !.attempts = 1] ELSE InitHist]
  /\ ka = [NewKeepAlive(TRUE) EXCEPT !.task = Some(1)]
  /\ loops = [l \in KaLoops |-> IF l = 1 THEN [InitLoop EXCEPT !.pc = "top"] ELSE InitLoop]
  /\ handler = [h \in Handlers |-> InitHandler]
  /\ enigo = None
  /\ InitHost
  /\ rt = [InitRuntime("app", KeepAliveSettings) EXCEPT !.server = Some(DEFAULT_TARGET_PORT)]
  /\ client = [t \in Tasks |-> IF t = 1 THEN Some(ClientOf(KeepAliveSettings)) ELSE None]

NextKa ==
  \/ \E l \in KaLoops :
       \/ KaLoopTop(l)
       \/ KaLoopWait(l)
       \/ KaLoopNotified(l)
       \/ KaLoopSleepElapsed(l)
       \/ KaLoopFire(l)
       \/ KaWorkerCall(l)
       \/ KaWorkerEnd(l)
       \/ KaLoopReset(l)
       \/ KaLoopNotifyIdle(l)
  \/ \E h \in Handlers :
       \/ TunnelMeta(h)
       \/ TunnelEnd(h)
       \/ WaitIdleCheck(h)
       \/ WaitIdleRegister(h)
       \/ ForwardRequest(h)
       \/ ApiRequest(h)
       \/ HandlerLock(h)
       \/ HandlerScancode(h)
       \/ HandlerCall(h)
       \/ HandlerEnd(h)
       \/ TunnelSendResponse(h)
  \/ post_keepalive_activity
  \/ KaTick

SpecKa == InitKa /\ [][NextKa]_vars

\* The same with a disconnect_tunnel arriving at any moment: the tunnel
\* task takes the stop branch of its select! when it is back at the select!
NextCancel ==
  \/ NextKa
  \/ disconnect_tunnel
  \/ \E t \in Tasks : ~RequestInFlight /\ StopBreak(t)

SpecCancel == InitKa /\ [][NextCancel]_vars

\* The activity coordinator alone: its run loops, stop() at any moment and
\* the calls that can follow it (remote enable and disable, remote
\* activity, ensure_started) with time passing.
NextStop ==
  \/ \E l \in KaLoops :
       \/ KaLoopTop(l)
       \/ KaLoopWait(l)
       \/ KaLoopNotified(l)
       \/ KaLoopSleepElapsed(l)
       \/ KaLoopFire(l)
       \/ KaWorkerCall(l)
       \/ KaWorkerEnd(l)
       \/ KaLoopReset(l)
       \/ KaLoopNotifyIdle(l)
  \/ \E enabled \in BOOLEAN : post_keepalive_switch(enabled)
  \/ stop_keepalive
  \/ restart_keepalive
  \/ post_keepalive_activity
  \/ KaTick

SpecStop == InitKa /\ [][NextStop]_vars

\* The life cycle of the tunnel and of the keep-alive under the commands of
\* a runtime, the application's or the headless service's: connect,
\* disconnect and settings updates, with the tunnel tasks up to their
\* connection attempt (which does not return here, so that a disconnect of
\* a connecting task runs into its 2 s timeout) and the coordinator loops up
\* to their sleep.
InitLife ==
  /\ tunnel = None
  /\ sup = [pc |-> "idle", task |-> None]
  /\ stop = [t \in Tasks |-> FALSE]
  /\ pc = [t \in Tasks |-> "none"]
  /\ run_locals = [t \in Tasks |-> InitRunLocals]
  /\ conn = [t \in Tasks |-> InitConn]
  /\ connection_info = DefaultConnectionInfo
  /\ idempotency_cache = [t \in Tasks |-> EmptyCache]
  /\ now = 0
  /\ hist = [t \in Tasks |-> InitHist]
  /\ \E kind \in {"app", "headless"}, settings \in SettingsChoices :
       /\ rt = InitRuntime(kind, settings)
       /\ ka = NewKeepAlive(settings.keepalive_enabled)
  /\ loops = [l \in KaLoops |-> InitLoop]
  /\ handler = [h \in Handlers |-> InitHandler]
  /\ enigo = None
  /\ InitHost
  /\ client = [t \in Tasks |-> None]

NextLife ==
  \/ connect_tunnel
  \/ disconnect_tunnel
  \/ disconnect_joined
  \/ disconnect_timed_out
  \/ \E next \in SettingsChoices :
       \/ update_settings(next)
       \/ apply_settings(next)
  \/ \E t \in Tasks : RunLoopTop(t)
  \/ \E l \in KaLoops :
       \/ KaLoopTop(l)
       \/ KaLoopWait(l)
       \/ KaLoopNotified(l)

SpecLife == InitLife /\ [][NextLife]_vars

\* The headless service polling its settings file: the file is rewritten
\* and refresh_settings_if_changed called in any order, next to connect and
\* disconnect.
InitRefresh ==
  /\ tunnel = None
  /\ sup = [pc |-> "idle", task |-> None]
  /\ stop = [t \in Tasks |-> FALSE]
  /\ pc = [t \in Tasks |-> "none"]
  /\ run_locals = [t \in Tasks |-> InitRunLocals]
  /\ conn = [t \in Tasks |-> InitConn]
  /\ connection_info = DefaultConnectionInfo
  /\ idempotency_cache = [t \in Tasks |-> EmptyCache]
  /\ now = 0
  /\ hist = [t \in Tasks |-> InitHist]
  /\ \E settings \in SettingsChoices :
       /\ rt = [InitRuntime("headless", settings) EXCEPT
                  !.settings_mtime = Some(1),
                  !.file = [mtime |-> Some(1), settings |-> settings]]
       /\ ka = NewKeepAlive(settings.keepalive_enabled)
  /\ loops = [l \in KaLoops |-> InitLoop]
  /\ handler = [h \in Handlers |-> InitHandler]
  /\ enigo = None
  /\ InitHost
  /\ client = [t \in Tasks |-> None]

NextRefresh ==
  \/ refresh_settings_if_changed
  \/ \E next \in SettingsChoices, mtime \in 1..MaxMtime : WriteSettingsFile(next, mtime)
  \/ RemoveSettingsFile
  \/ connect_tunnel
  \/ disconnect_tunnel
  \/ disconnect_joined
  \/ \E t \in Tasks : RunLoopTop(t)

SpecRefresh == InitRefresh /\ [][NextRefresh]_vars

\* What the host decides for one command of the supervisor: the port that
\* find_available_port and the bind give (None: no port of the hundred tried
\* is free, or the bind failed), and whether each write of the PidInfo
\* sidecar file succeeds (config.rs:172-193, every step of it can fail)
PortOffsets == {0, 1}
ServerEnvs ==
  [port : {None} \cup {Some(DEFAULT_TARGET_PORT + o) : o \in PortOffsets},
   start_pid_ok : BOOLEAN, join_pid_ok : BOOLEAN]

NoPortFound == Err(RuntimeError(<<"No available port found">>))
PidWriteFailed == Err(<<"Io(", "pid file", ")">>)

\* start_local_server, mod.rs:261-306, as a function of the runtime: the
\* running server's port at once; an error with nothing started when no port
\* can be bound; otherwise the server task is spawned and its handle stored,
\* and only then the sidecar file is written, whose error is returned
StartLocalServer(runtime, env) ==
  IF runtime.server # None THEN [runtime EXCEPT !.result = Ok]
  ELSE IF env.port = None THEN [runtime EXCEPT !.result = NoPortFound]
  ELSE [runtime EXCEPT !.server = env.port,
                       !.result = IF env.start_pid_ok THEN Ok ELSE PidWriteFailed]

start_local_server(env) ==
  /\ sup.pc = "idle"
  /\ rt' = StartLocalServer(rt, env)
  /\ UNCHANGED <<tunnel, sup, stop, pc, run_locals, conn, connection_info,
                 idempotency_cache, now, hist, ka, loops, handler, enigo, hvars, client>>

\* stop_local_server, mod.rs:308-318: the server handle is taken if there is
\* one; the tunnel handle is not looked at
stop_local_server ==
  /\ sup.pc = "idle"
  /\ rt' = [rt EXCEPT !.server = None, !.result = Ok]
  /\ UNCHANGED <<tunnel, sup, stop, pc, run_locals, conn, connection_info,
                 idempotency_cache, now, hist, ka, loops, handler, enigo, hvars, client>>

\* connect_tunnel, mod.rs:320-371, with the host's outcomes: the error of
\* start_local_server is passed on by `?`; the tunnel task is spawned and
\* its handle stored, then the sidecar file is written, and its error is
\* returned before the keep-alive is started
connect_tunnel_env(env) ==
  /\ sup.pc = "idle"
  /\ IF tunnel # None
     THEN /\ rt' = [rt EXCEPT !.result = Ok]
          /\ UNCHANGED <<tunnel, stop, pc, run_locals, conn, idempotency_cache, hist,
                         client, ka, loops>>
     ELSE IF IsBlank(rt.settings.secret)
     THEN /\ rt' = [rt EXCEPT !.result = MissingApiKey]
          /\ UNCHANGED <<tunnel, stop, pc, run_locals, conn, idempotency_cache, hist,
                         client, ka, loops>>
     ELSE IF ~StartLocalServer(rt, env).result.ok
     THEN /\ rt' = StartLocalServer(rt, env)
          /\ UNCHANGED <<tunnel, stop, pc, run_locals, conn, idempotency_cache, hist,
                         client, ka, loops>>
     ELSE /\ FreeSlots # {}
          /\ rt.settings.keepalive_enabled => CanEnsureStarted(ka, loops)
          /\ LET t == CHOOSE x \in FreeSlots : \A y \in FreeSlots : x <= y
                 started == IF env.join_pid_ok
                            THEN start_keepalive_if_enabled(ka, loops, rt.settings)
                            ELSE [ka |-> ka, loops |-> loops]
             IN /\ TunnelSpawn(t, rt.settings)
                /\ ka' = started.ka
                /\ loops' = started.loops
          /\ rt' = [StartLocalServer(rt, env) EXCEPT
                      !.result = IF env.join_pid_ok THEN Ok ELSE PidWriteFailed]
  /\ UNCHANGED <<sup, connection_info, now, handler, enigo, hvars>>

\* The supervisor under the commands of the front-end
\* (commands/cyberdriver.rs): start and stop of the local server, connect
\* and disconnect of the tunnel, update_settings, with every outcome of the
\* host for the port and for the sidecar file.
NextServer ==
  \/ \E env \in ServerEnvs : start_local_server(env)
  \/ stop_local_server
  \/ \E env \in ServerEnvs : connect_tunnel_env(env)
  \/ disconnect_tunnel
  \/ disconnect_joined
  \/ disconnect_timed_out
  \/ \E next \in SettingsChoices : update_settings(next)
  \/ \E t \in Tasks : RunLoopTop(t)

SpecServer == Init /\ [][NextServer]_vars

\* Key sequences sent to the keyboard handler, one after the other.
NextXdo ==
  \E sequence \in Sequences :
    /\ execute_xdo_sequence(sequence)
    /\ UNCHANGED <<tunnel, sup, stop, pc, run_locals, conn, connection_info,
                   idempotency_cache, now, hist, ka, loops, handler, enigo, rt, client,
                   config, forward, disk>>

SpecXdo == Init /\ [][NextXdo]_vars

\* ---- The keys a sequence presses and releases ---------------------------
\* Tokens for the two executors of execute_xdo_sequence: modifiers of the
\* parser, a modifier only the executor knows, a letter, a named key written
\* with '_', and a character that has no scancode
KeyTokens == {"ctrl", "shift", "control", "a", "page_up", "!"}
KeyChords == UNION {[1..n -> KeyTokens] : n \in 1..MaxChordLen}
KeySequences == UNION {[1..n -> KeyChords] : n \in 0..MaxChords}

\* normalize_key, input.rs:253-255: to_lowercase, then every '_' removed
normalize_key(key) ==
  IF ToLowercase(key) = "page_up" THEN "pageup" ELSE ToLowercase(key)

\* scancode_for_key, input.rs:485-528, with scancode_for_char (428-484) for
\* the first character of any other name; None: "Unknown key"
scancode_for_key(key) ==
  CASE normalize_key(key) \in {"ctrl", "control"} -> Some(29)
    [] normalize_key(key) = "shift" -> Some(42)
    [] normalize_key(key) = "pageup" -> Some(57417)
    [] normalize_key(key) = "a" -> Some(30)
    [] OTHER -> None

\* is_modifier_key, input.rs:288-303
is_modifier_key(key) == key \in {"ctrl", "control", "shift", "alt", "option", "cmd",
                                 "command", "win", "windows", "super", "meta"}

\* map_key_to_enigo, input.rs:335-378: the named keys, and Key::Unicode of
\* the first character for any other non-empty name
map_key_to_enigo(key) ==
  CASE normalize_key(key) \in {"ctrl", "control"} -> Some(<<"Control">>)
    [] normalize_key(key) = "shift" -> Some(<<"Shift">>)
    [] normalize_key(key) = "pageup" -> Some(<<"PageUp">>)
    [] OTHER -> Some(<<"Unicode", normalize_key(key)>>)

UnknownKey(key) == Err(RuntimeError(<<"Unknown key: ", key>>))
EnigoFailed == Err(RuntimeError(<<"enigo">>))

RECURSIVE ScancodeEvents(_, _)
\* the loop of the Windows branch, input.rs:108-117, over the events that
\* remain, with `held` the scancodes sent down and not yet up:
\* press_key_with_scancode (411-426) sends the code of the key, or returns
\* the error that `?` passes on at once
ScancodeEvents(events, held) ==
  IF events = <<>> THEN [result |-> Ok, held |-> held]
  ELSE LET event == Head(events)
           key == normalize_key(event.key)
           code == scancode_for_key(key)
       IN IF code = None THEN [result |-> UnknownKey(key), held |-> held]
          ELSE ScancodeEvents(Tail(events),
                              IF event.down THEN held \cup {Unwrap(code)}
                              ELSE held \ {Unwrap(code)})

RECURSIVE EnigoEvents(_, _, _)
\* the loop of execute_xdo_sequence_inner, input.rs:262-284, with `held`
\* the keys pressed and not released and `fail_at` the number of calls of
\* safe_key until the one that returns an error (0: none does): a modifier
\* is pressed or released as the event says, another key is clicked on its
\* down event and its up event is skipped
EnigoEvents(events, held, fail_at) ==
  IF events = <<>> THEN [result |-> Ok, held |-> held]
  ELSE LET event == Head(events)
           key_name == normalize_key(event.key)
           key == Unwrap(map_key_to_enigo(key_name))
       IN IF is_modifier_key(key_name)
          THEN IF fail_at = 1 THEN [result |-> EnigoFailed, held |-> held]
               ELSE EnigoEvents(Tail(events),
                                IF event.down THEN held \cup {key} ELSE held \ {key},
                                Max(fail_at - 1, 0))
          ELSE IF event.down
          THEN IF fail_at = 1 THEN [result |-> EnigoFailed, held |-> held]
               ELSE EnigoEvents(Tail(events), held, Max(fail_at - 1, 0))
          ELSE EnigoEvents(Tail(events), held, fail_at)

\* the events of all groups, in the order the two nested loops visit them
Flatten(groups) == FlatMap(LAMBDA group : group, groups)

MaxFailAt == 3

\* execute_xdo_sequence in a Windows build, input.rs:108-117
execute_xdo_sequence_windows(sequence) ==
  /\ xdo.calls < MaxXdoCalls
  /\ LET groups == parse_xdo_sequence(sequence)
         run == ScancodeEvents(Flatten(groups), {})
     IN xdo' = [sequence |-> sequence, groups |-> groups, calls |-> xdo.calls + 1,
                platform |-> "windows", result |-> run.result, held |-> run.held]
  /\ UNCHANGED <<tunnel, sup, stop, pc, run_locals, conn, connection_info,
                 idempotency_cache, now, hist, ka, loops, handler, enigo, rt, client,
                 config, forward, disk>>

\* execute_xdo_sequence in the other builds, input.rs:118-133, 257-286
execute_xdo_sequence_portable(sequence, fail_at) ==
  /\ xdo.calls < MaxXdoCalls
  /\ LET groups == parse_xdo_sequence(sequence)
         run == EnigoEvents(Flatten(groups), {}, fail_at)
     IN xdo' = [sequence |-> sequence, groups |-> groups, calls |-> xdo.calls + 1,
                platform |-> "portable", result |-> run.result, held |-> run.held]
  /\ UNCHANGED <<tunnel, sup, stop, pc, run_locals, conn, connection_info,
                 idempotency_cache, now, hist, ka, loops, handler, enigo, rt, client,
                 config, forward, disk>>

\* Key sequences executed in a Windows build or in another one, the calls
\* of enigo succeeding or one of them failing.
NextKeys ==
  \/ \E sequence \in KeySequences : execute_xdo_sequence_windows(sequence)
  \/ \E sequence \in KeySequences, fail_at \in 0..MaxFailAt :
       execute_xdo_sequence_portable(sequence, fail_at)

SpecKeys == Init /\ [][NextKeys]_vars

\* Starts of the runtime in the build that runs or another one, and
\* clear_config, with writes of config.json that succeed or fail; at first
\* there is no config.json or the one an earlier installation has left.
InitConfig ==
  /\ InitProcess
  /\ xdo = NoXdo
  /\ forward = NoForward
  /\ disk = NoDisk
  /\ \/ config = NoConfig
     \/ \E version \in Versions :
          config = [NoConfig EXCEPT !.file = Some(ConfigJson(Some(version), Some(Uuid(0)))),
                                    !.stored = Some(Uuid(0))]

NextConfig ==
  \/ \E version \in Versions, write_ok \in BOOLEAN : StartRuntime(version, write_ok)
  \/ \E write_ok \in BOOLEAN : clear_config(write_ok)

SpecConfig == InitConfig /\ [][NextConfig]_vars

\* One request forwarded to the local API, for every path and body.
NextForward == \E path \in ForwardPaths, body \in ShellBodies : ForwardToApi(path, body)

SpecForward == Init /\ [][NextForward]_vars

\* Files written and read through the local API, for every form of path.
NextFs ==
  \/ \E path \in RequestPaths, content \in Contents, mode \in {None, Some("write"), Some("append")} :
       post_fs_write(path, Base64Encode(content), mode)
  \/ \E path \in RequestPaths : get_fs_read(path)

SpecFs == Init /\ [][NextFs]_vars

(***************************************************************************)
(* Properties of the tunnel client                                         *)
(***************************************************************************)
\* the step is the handling of an "end" frame that closed a pending request
RequestHandled(t) == hist'[t].requests_closed = hist[t].requests_closed + 1

\* one complete response to the request of `meta`: the response meta text
\* with its requestId, binary frames only, then the "end" text
IsResponseTo(frames, meta) ==
  /\ Len(frames) >= 2
  /\ frames[1].type = "Text"
  /\ frames[1].text.kind = "object"
  /\ frames[1].text.requestId = meta.request_id
  /\ frames[Len(frames)] = TextMessage(EndText)
  /\ \A i \in 2..(Len(frames) - 1) : frames[i].type = "Binary"

\* C1: on a connection, for any sequence of incoming frames, a request whose
\* meta frame was received stops being the pending request only by being
\* answered with exactly one complete response (meta text, body frames, one
\* "end"), or by the connection being torn down.
C1_EveryRequestAnswered ==
  [][\A t \in Tasks :
       (/\ pc[t] = "open"
        /\ conn[t].request_meta # None
        /\ conn'[t].request_meta # conn[t].request_meta)
       => \/ pc'[t] # "open"
          \/ IsResponseTo(hist'[t].sent, Unwrap(conn[t].request_meta))]_vars

\* C2 as stated: on a connection that is not torn down, the number of "end"
\* frames emitted equals the number of "end" frames received and handled.
C2_EndsEmittedEqualEndsReceived ==
  \A t \in Tasks :
    pc[t] = "open" => hist[t].ends_emitted = hist[t].ends_received

\* C2 amended: on a connection that is not torn down, the number of "end"
\* frames emitted equals the number of received "end" frames that closed a
\* pending request; an "end" received with no request pending emits nothing.
C2_EndsEmittedEqualRequestsClosed ==
  \A t \in Tasks :
    pc[t] = "open" => hist[t].ends_emitted = hist[t].requests_closed

\* an open connection that has answered a request and has also received an
\* "end" with no request pending
C2_StrayEndWitness ==
  \E t \in Tasks :
    /\ pc[t] = "open"
    /\ hist[t].ends_emitted = 1
    /\ hist[t].requests_closed = 1
    /\ hist[t].ends_received = 2

\* C3: a keyed request is forwarded to the local API at most once per key
\* within 60 s: a request whose key was answered less than 60 s ago is
\* answered with that same response and without a call of the local API,
\* whatever that response was.
C3_RepeatAnsweredFromCache ==
  [][\A t \in Tasks :
       (/\ RequestHandled(t)
        /\ Unwrap(hist'[t].last).key # None
        /\ Unwrap(Unwrap(hist'[t].last).key) \in DOMAIN hist[t].answered)
       => LET l == Unwrap(hist'[t].last)
          IN /\ ~l.contacted
             /\ l.response = hist[t].answered[Unwrap(l.key)].response]_vars

C5_CacheBounded ==
  \A t \in Tasks :
    Cardinality(DOMAIN idempotency_cache[t]) <= IDEMPOTENCY_CACHE_MAX_SIZE

\* C6: the cleanup removes an entry whose age is at most 60 s only if, at
\* that cleanup, the map holds more than IDEMPOTENCY_CACHE_MAX_SIZE entries
\* of that age: at or below the cap only expired entries are removed.
C6_CleanupRemovesOnlyExpiredBelowCap ==
  [][\A t \in Tasks :
       RequestHandled(t)
       => LET c == idempotency_cache[t]
              live == {j \in DOMAIN c : now - c[j].ts <= 60}
          IN \A k \in Unwrap(hist'[t].last).removed :
               k \in live => Cardinality(live) > IDEMPOTENCY_CACHE_MAX_SIZE]_vars

\* a cleanup of a map within its cap has removed entries (expired ones)
C6_ExpiredRemovedWitness ==
  \E t \in Tasks :
    /\ hist[t].last # None
    /\ Unwrap(hist[t].last).removed # {}
    /\ Cardinality(DOMAIN idempotency_cache[t])
         + Cardinality(Unwrap(hist[t].last).removed) <= IDEMPOTENCY_CACHE_MAX_SIZE

AuthOutcomes == {"http_403", "close_1008"}
OtherFailures ==
  {"http_500", "io_error", "read_error", "eof", "ping_failed", "bad_meta",
   "send_failed", "close_other"}

\* C7: while the stop token is not cancelled, run() leaves its loop after a
\* connection exactly when that connection ended with close code 1008 or
\* with HTTP 403 on the upgrade; it then makes no further attempt.
C7_OnlyAuthFailureTerminates ==
  [][\A t \in Tasks :
       (pc[t] = "returned" /\ ~stop[t] /\ pc'[t] # pc[t])
       => (pc'[t] = "done" <=> hist[t].outcome \in AuthOutcomes)]_vars

\* C8: after run() has left its loop on an authentication failure, and until
\* a new connection attempt is made, ConnectionInfo.last_error contains
\* AUTH_FAILURE and ConnectionInfo.connected is false.
C8_AuthFailureStaysSurfaced ==
  \A t \in Tasks :
    hist[t].auth_exit
    => /\ ~connection_info.connected
       /\ connection_info.last_error # None
       /\ Contains(Unwrap(connection_info.last_error), AUTH_FAILURE)

\* C9: a connection that ended with a failure other than an authentication
\* failure is followed, while the stop token is not cancelled, by the
\* backoff sleep and then by the next connection attempt.
C9_OtherFailureRetried ==
  [][\A t \in Tasks :
       (~stop[t] /\ pc'[t] # pc[t])
       => /\ (pc[t] = "returned" /\ hist[t].outcome \in OtherFailures)
               => pc'[t] = "sleeping"
          /\ pc[t] = "sleeping" => pc'[t] = "loop"
          /\ pc[t] = "loop" => pc'[t] = "connecting"]_vars

\* C10: the delay slept before the n-th reconnect attempt of a run loop is
\* min(2^(n-1), 16) s plus a jitter of 0..999 ms.
C10_BackoffDelay ==
  \A t \in Tasks :
    (pc[t] = "sleeping" /\ hist[t].attempts < MaxAttempts)
    => LET n == hist[t].attempts
           base == Min(2 ^ (n - 1), 16)
       IN /\ n >= 1
          /\ run_locals[t].delay >= base * 1000
          /\ run_locals[t].delay <= base * 1000 + 999

\* the sleep before the 7th reconnect: the third in a row at the 16 s cap,
\* with the largest jitter
C10_CapWitness ==
  \E t \in Tasks :
    /\ pc[t] = "sleeping"
    /\ hist[t].attempts = 7
    /\ run_locals[t].delay = 16999

RECURSIVE ConcatBytes(_)
\* the bytes of a sequence of frames, in order
ConcatBytes(frames) ==
  IF frames = <<>> THEN <<>> ELSE Head(frames).bytes \o ConcatBytes(Tail(frames))

\* C11: the response to a request is exactly one text frame {requestId,
\* status, headers} with the request's id, then binary frames of at most
\* 16,384 bytes each (none of them empty) whose concatenation is the response
\* body, then the text frame "end", and nothing else; a send that fails
\* leaves a proper prefix of it and tears the connection down.
C11_ResponseFraming ==
  [][\A t \in Tasks :
       RequestHandled(t)
       => LET meta == Unwrap(conn[t].request_meta)
              resp == Unwrap(hist'[t].last).response
              sent == hist'[t].sent
              n == Len(sent)
              whole == /\ n >= 2
                       /\ sent[n] = TextMessage(EndText)
                       /\ ConcatBytes(SubSeq(sent, 2, n - 1)) = resp.body
                       /\ resp.body = <<>> => n = 2
          IN /\ n >= 1 =>
                  /\ sent[1].type = "Text"
                  /\ sent[1].text.kind = "object"
                  /\ sent[1].text.requestId = meta.request_id
                  /\ sent[1].text.status = resp.status
                  /\ sent[1].text.headers = Some(resp.headers)
             /\ \A i \in 2..n :
                  \/ /\ sent[i].type = "Binary"
                     /\ Len(sent[i].bytes) \in 1..16384
                     /\ i < n \/ pc'[t] # "open"
                  \/ i = n /\ sent[i] = TextMessage(EndText)
             /\ pc'[t] = "open" => whole
             /\ pc'[t] # "open" =>
                  /\ ~whole
                  /\ ConcatBytes(SubSeq(sent, 2, n))
                       = SubSeq(resp.body, 1, Len(ConcatBytes(SubSeq(sent, 2, n))))]_vars

\* a complete response whose body of 2 * 16,384 + 1 bytes went out in three
\* binary frames
C11_ThreeChunksWitness ==
  \E t \in Tasks :
    /\ pc[t] = "open"
    /\ hist[t].last # None
    /\ Len(Unwrap(hist[t].last).response.body) = 32769
    /\ Len(hist[t].sent) = 5
    /\ Len(hist[t].sent[4].bytes) = 1

\* C12: within one connection requests are handled one at a time, in arrival
\* order: the handling of an "end" frame forwards one request (the pending
\* one) and, unless the connection is torn down, has written the "end" of its
\* response before the next frame is read, so no forward starts before the
\* previous response is complete.
C12_OneRequestAtATime ==
  [][\A t \in Tasks :
       (pc[t] = "open" /\ hist'[t].requests_closed # hist[t].requests_closed)
       => /\ hist'[t].requests_closed = hist[t].requests_closed + 1
          /\ conn[t].request_meta # None
          /\ hist'[t].sent # <<>> =>
               hist'[t].sent[1].text.requestId = Unwrap(conn[t].request_meta).request_id
          /\ pc'[t] = "open" =>
               /\ hist'[t].sent # <<>>
               /\ hist'[t].sent[Len(hist'[t].sent)] = TextMessage(EndText)
               /\ hist'[t].ends_emitted = hist'[t].requests_closed
               /\ conn'[t].request_meta = None]_vars

\* two requests forwarded on one connection, the second after the first
\* response was complete
C12_TwoRequestsWitness ==
  \E t \in Tasks :
    /\ pc[t] = "open"
    /\ hist[t].requests_closed = 2
    /\ hist[t].ends_emitted = 2
    /\ hist[t].last # None
    /\ Unwrap(hist[t].last).contacted
    /\ Unwrap(hist[t].last).key = None

(***************************************************************************)
(* Properties of the activity coordinator and the input device             *)
(***************************************************************************)
\* a synthesis operation between its first platform call and its end
HandlerSynthesizing(h) == handler[h].pc = "input" /\ handler[h].calls >= 1
WorkerSynthesizing(l) == loops[l].pc = "firing" /\ loops[l].calls >= 1

\* C13: a handler's first platform input call comes strictly after the last
\* platform call of a firing of the coordinator: the keep-alive worker makes
\* no platform call while a request handler is between its first call and
\* its end.
C13_WorkerCallsBeforeHandler ==
  [][\A l \in KaLoops :
       (loops[l].pc = "firing" /\ loops'[l].calls = loops[l].calls + 1)
       => \A h \in Handlers : ~HandlerSynthesizing(h)]_vars

\* C14: no two input-synthesis operations (handlers on either path, the
\* keep-alive worker) are in progress at once.
C14_NoConcurrentSynthesis ==
  Cardinality({h \in Handlers : HandlerSynthesizing(h)})
    + Cardinality({l \in KaLoops : WorkerSynthesizing(l)}) <= 1

\* C15: the events of a request forwarded by the tunnel are in this order:
\* the meta frame, record-activity, wait-until-idle completed, the request
\* to the local API, the response sent to the gateway, record-activity.
C15_ActivityRecordedAroundForward ==
  \A h \in Handlers :
    (handler[h].via = "tunnel" /\ handler[h].pc = "done")
    => \E i, j, k, m, n \in DOMAIN handler[h].log :
         /\ 1 < i /\ i < j /\ j < k /\ k < m /\ m < n
         /\ handler[h].log[i - 1] = "meta"
         /\ handler[h].log[i] = "record_activity"
         /\ handler[h].log[j] = "wait_until_idle"
         /\ handler[h].log[k] = "request"
         /\ handler[h].log[m] = "send_response"
         /\ handler[h].log[n] = "record_activity"

\* C16: a handler of the local API that has synthesized input has called
\* record-activity.
C16_InputHandlerRecordsActivity ==
  \A h \in Handlers :
    (handler[h].via = "direct" /\ handler[h].pc = "done")
    => \E i \in DOMAIN handler[h].log : handler[h].log[i] = "record_activity"

\* C17: busy never becomes true less than threshold_seconds after the most
\* recent record-activity.
C17_NoFiringWithinThreshold ==
  [][(~ka.busy /\ ka'.busy) => now >= ka.last_activity + ka.threshold_seconds]_vars

\* C18: when a firing ends, whatever the worker's outcome, busy is reset and
\* the next cycle is scheduled at now + threshold + jitter, jitter within
\* [-7, 7] s, and not before now; the loop's next step wakes every request
\* waiting in wait_until_idle.
C18_FiringEnds ==
  [][\A l \in KaLoops :
       /\ (loops[l].pc = "worker_done" /\ loops'[l].pc # "worker_done")
          => /\ loops[l].outcome \in {"ok", "err", "panic"}
             /\ ~ka'.busy
             /\ ka'.next_allowed >= now
             /\ \/ ka'.next_allowed = now
                \/ /\ ka'.next_allowed >= now + ka.threshold_seconds - JITTER_SPAN
                   /\ ka'.next_allowed <= now + ka.threshold_seconds + JITTER_SPAN
             /\ loops'[l].pc = "notify_idle"
       /\ (loops[l].pc = "notify_idle" /\ loops'[l].pc # "notify_idle")
          => /\ \A h \in Handlers : handler[h].pc = "wait_idle" => handler'[h].woken
             /\ loops'[l].pc = "top"]_vars

\* a worker that panicked: busy is reset, the cooldown is clamped at zero and
\* a waiting request has been woken
C18_PanicWitness ==
  \E l \in KaLoops, h \in Handlers :
    /\ loops[l].pc = "top"
    /\ loops[l].outcome = "panic"
    /\ ~ka.busy
    /\ ka.next_allowed = now
    /\ handler[h].pc = "wait_idle"
    /\ handler[h].woken

(***************************************************************************)
(* Properties of the runtime's commands                                    *)
(***************************************************************************)
\* C19: when connect_tunnel has spawned the tunnel while the settings enable
\* the keep-alive, the coordinator is enabled, not stopped and holds a
\* running loop, on the first connect and on any later one.
C19_KeepAliveRunsAfterConnect ==
  [][(tunnel = None /\ tunnel' # None /\ rt'.settings.keepalive_enabled)
     => /\ ka'.enabled
        /\ ~ka'.stop
        /\ ka'.task # None
        /\ loops'[Unwrap(ka'.task)].pc \notin {"none", "exited"}]_vars

\* C20: once a settings update has run to its end, a running tunnel uses the
\* current host, port, secret, local port and keepalive tag (and there is
\* none when the secret is empty).
C20_TunnelFollowsSettings ==
  (sup.pc = "idle" /\ tunnel # None)
  => TunnelFields(Unwrap(client[Unwrap(tunnel)])) = TunnelFields(rt.settings)

(***************************************************************************)
(* Properties of the connection state                                      *)
(***************************************************************************)
\* the task the supervisor holds, or is waiting for in disconnect_tunnel
SupervisedTasks == tunnel \cup sup.task

\* C21: ConnectionInfo.connected is true while the supervisor's tunnel task
\* has an open connection, and false when no task of the supervisor has one
\* (a connection that has just ended counts as open until run() has written
\* the flag).
C21_ConnectedMirrorsOpen ==
  /\ (\E t \in SupervisedTasks : pc[t] = "open") => connection_info.connected
  /\ connection_info.connected
     => \E t \in SupervisedTasks : pc[t] \in {"open", "returned"}

\* C22: once the stop token of the tunnel task is cancelled, the task does
\* not carry the request in flight any further: it neither sends the request
\* to the local API nor sends the response to the gateway.
C22_CancelAbandonsRequest ==
  [][\A h \in Handlers :
       (handler[h].via = "tunnel" /\ \E t \in Tasks : stop[t] /\ pc[t] = "open")
       => /\ ~(handler[h].pc = "checked" /\ handler'[h].pc = "handler")
          /\ ~(handler[h].pc = "responded" /\ handler'[h].pc = "done")]_vars

\* C23: disconnect_tunnel called when no tunnel is held leaves the state of
\* the runtime as it was (as do connect_tunnel with a tunnel held and the
\* local server's start and stop when started and stopped).
C23_DisconnectWhenStoppedIsNoOp ==
  [][(sup.pc = "disconnecting" /\ sup.task = None /\ ~rt.restart /\ sup'.pc = "idle")
     => /\ ka' = ka
        /\ loops' = loops
        /\ rt' = rt
        /\ tunnel' = tunnel]_vars

C25_RefreshUnchangedIsNoOp ==
  [][(refresh_settings_if_changed
      /\ (rt.file.mtime = None \/ rt.file.mtime = rt.settings_mtime))
     => /\ rt'.settings = rt.settings
        /\ rt'.server = rt.server
        /\ rt'.settings_mtime = rt.settings_mtime
        /\ ~rt'.restart
        /\ UNCHANGED <<tunnel, sup, stop, pc, client, ka, loops>>]_vars

\* a tunnel is connected and the file holds other tunnel settings under the
\* mtime an earlier refresh has seen
C25_SameMtimeWitness ==
  /\ tunnel # None
  /\ sup.pc = "idle"
  /\ rt.settings_mtime = Some(MaxMtime)
  /\ rt.file.mtime = rt.settings_mtime
  /\ TunnelFields(rt.file.settings) # TunnelFields(rt.settings)
  /\ rt.file.settings.keepalive_enabled # rt.settings.keepalive_enabled

\* CyberdriverRuntime::get_status, mod.rs:198-212: the fields the front-end
\* polls; last_error is the runtime's own field
get_status ==
  [local_server_running |-> rt.server # None,
   local_server_port |-> rt.server,
   tunnel_connected |-> tunnel # None /\ connection_info.connected,
   keepalive_enabled |-> rt.settings.keepalive_enabled,
   last_error |-> rt.last_error]

\* HeadlessRuntime::status_snapshot, headless.rs:322-331
status_snapshot ==
  [connected |-> tunnel # None /\ connection_info.connected,
   local_port |-> rt.server,
   cloud_host |-> connection_info.host,
   cloud_port |-> connection_info.port,
   last_error |-> connection_info.last_error]

\* C26: the status the supervisor returns carries the tunnel's last error:
\* whenever the run loop has recorded an error in ConnectionInfo.last_error,
\* get_status reports that error in last_error.
C26_StatusReportsLastError ==
  (rt.kind = "app" /\ connection_info.last_error # None)
    => get_status.last_error = connection_info.last_error

\* C27: for every chord of a sequence, with ctrl, control, alt, shift, win,
\* cmd, super, meta and option taken as modifiers and every other token as a
\* key, the events are: each modifier pressed in listed order, each key
\* pressed then released in listed order, the modifiers released in reverse
\* order.
SpecModifiers ==
  {"ctrl", "control", "alt", "shift", "win", "cmd", "super", "meta", "option"}

C27_ChordEvents ==
  /\ Len(xdo.groups) = Len(xdo.sequence)
  /\ \A i \in 1..Len(xdo.sequence) :
       xdo.groups[i] = ChordEvents(xdo.sequence[i], SpecModifiers)

\* C28: a start of the runtime (get_config) that finds config.json present
\* never replaces the fingerprint written to that file by another one; a
\* fingerprint is generated only when the file is missing.
C28_FingerprintKept ==
  [][(\E version \in Versions, write_ok \in BOOLEAN : StartRuntime(version, write_ok))
     => /\ (config.file # None /\ config.stored # None /\ config'.stored # None)
             => config'.stored = config.stored
        /\ (config.file # None) => config'.uuids = config.uuids]_vars

\* C29: for the shell-exec route the forward timeout is body.timeout (30 s
\* when absent or unparsable) plus 3 s, hence longer than the shell
\* handler's deadline max(timeout, 1 s); for every other path it is 30 s.
C29_ForwardTimeout ==
  forward # NoForward =>
    IF forward.path = SHELL_EXEC_PATH
    THEN /\ forward.timeout
              = (IF forward.body.json /\ forward.body.timeout # None
                 THEN Unwrap(forward.body.timeout) ELSE DEFAULT_TIMEOUT_MS)
                + TIMEOUT_MARGIN_MS
         /\ forward.deadline # None => forward.timeout > Unwrap(forward.deadline)
    ELSE forward.timeout = DEFAULT_TIMEOUT_MS

\* C30: a write of base64(content) to a path in write mode followed by a
\* read of the same path returns a content field that decodes to content,
\* for every form of path and every content; and a write given a bare file
\* name is stored under $HOME/CyberdeskTransfers/<filename>.
C30_FsRoundTrip ==
  (disk.written # None /\ Unwrap(disk.written).mode # Some("append")) =>
    LET w == Unwrap(disk.written)
    IN /\ (disk.read # None /\ Unwrap(disk.read).path = w.path) =>
            /\ Unwrap(disk.read).response.ok
            /\ Base64Decode(Unwrap(disk.read).response.body.content)
                 = Base64Decode(w.content)
            /\ Base64Decode(w.content) # None
       /\ Len(w.path) = 1 => w.safe_path = TransferDir \o w.path

\* C31: a cleanup that finds more than IDEMPOTENCY_CACHE_MAX_SIZE unexpired
\* entries removes exactly floor(n / 5) of them, none of them younger than
\* an entry it keeps, and keeps all others as they are; a request answered
\* from the cache leaves the entry's stored timestamp unchanged.
C31_EvictsOldestFifth ==
  [][\A t \in Tasks :
       (RequestHandled(t) /\ Unwrap(hist'[t].last).key # None)
       => LET l == Unwrap(hist'[t].last)
              k == Unwrap(l.key)
              c == idempotency_cache[t]
              live == {j \in DOMAIN c : now - c[j].ts <= IDEMPOTENCY_CACHE_TTL}
              evicted == l.removed \cap live
          IN /\ Cardinality(live) > IDEMPOTENCY_CACHE_MAX_SIZE =>
                  /\ Cardinality(evicted) = Cardinality(live) \div 5
                  /\ \A a \in evicted, b \in live \ evicted : c[a].ts <= c[b].ts
                  /\ \A b \in live \ evicted :
                       /\ b \in DOMAIN idempotency_cache'[t]
                       /\ b # k => idempotency_cache'[t][b] = c[b]
             /\ ~l.contacted => idempotency_cache'[t][k].ts = c[k].ts]_vars

\* a cleanup over the cap has evicted an entry at a time when no entry can
\* have expired, and the map still holds entries of different age
C31_EvictionWitness ==
  \E t \in Tasks :
    /\ hist[t].last # None
    /\ now <= IDEMPOTENCY_CACHE_TTL
    /\ LET l == Unwrap(hist[t].last)
           c == idempotency_cache[t]
       IN /\ l.removed # {}
          /\ Cardinality(DOMAIN c) + Cardinality(l.removed) > IDEMPOTENCY_CACHE_MAX_SIZE + 1
          /\ \E a, b \in DOMAIN c : c[a].ts < c[b].ts

\* C32: wait_until_idle has no lost wakeup: a caller that has seen busy and
\* waits on idle_notify is never left waiting while busy is false and no
\* idle notification is about to be sent.
C32_NoLostWakeup ==
  \A h \in Handlers :
    (handler[h].pc = "wait_idle" /\ ~handler[h].woken)
      => \/ ka.busy
         \/ \E l \in KaLoops : loops[l].pc = "notify_idle"

\* C33: after stop() the run loop terminates from every state: it is never
\* left waiting on schedule_notify, its only wait without a timer, with
\* stop set and no wakeup to come.
C33_StoppedLoopNotParked ==
  \A l \in KaLoops :
    ka.stop => ~(loops[l].pc = "wait_enabled" /\ ~loops[l].woken)

\* C34: once stop() has been called no synthetic activity begins: busy never
\* goes from false to true, whatever calls follow.
C34_NoFiringAfterStop ==
  [][(ka.stop /\ ~ka.busy) => ~ka'.busy]_vars

\* after stop() keep-alive has been enabled again, a run loop has been
\* started again and the deadline has passed
C34_ReenabledWitness ==
  /\ ka.stop
  /\ ka.enabled
  /\ ka.task # None
  /\ ~ka.busy
  /\ now >= ka.next_allowed

\* C35: at any time at most one tunnel client task spawned by the
\* supervisor is alive.
C35_OneTunnelTask ==
  Cardinality({t \in Tasks : pc[t] \notin {"none", "done"}}) <= 1

\* C36: the supervisor holds a tunnel handle only while its tunnel task is
\* alive, so that connect_tunnel after the run loop has ended by itself on
\* AUTH_FAILURE finds no handle and spawns a new task.
C36_HandleOnlyWhileAlive ==
  tunnel # None => pc[Unwrap(tunnel)] # "done"

\* C37: when start_local_server or connect_tunnel returns an error, the
\* supervisor holds the server handle and the tunnel handle it held before
\* the call and no task has been started, the failure of the PidInfo
\* sidecar write included.
C37_ErrorLeavesStateAsBefore ==
  [][((\E env \in ServerEnvs : start_local_server(env) \/ connect_tunnel_env(env))
      /\ ~rt'.result.ok)
     => (rt'.server = rt.server /\ tunnel' = tunnel /\ pc' = pc)]_vars

\* C38: a tunnel handle is never held without a local-server handle.
C38_TunnelImpliesServer == tunnel # None => rt.server # None

\* C39: during the life of one run loop the delay base sleep_time is one of
\* 1, 2, 4, 8, 16 and never decreases; the end of every sleep doubles it up
\* to the cap, whether or not the connection before it had been established.
C39_DelayBaseNeverDecreases ==
  [][\A t \in Tasks :
       pc[t] \notin {"none", "done"}
       => /\ run_locals'[t].sleep_time \in {1, 2, 4, 8, 16}
          /\ run_locals'[t].sleep_time >= run_locals[t].sleep_time
          /\ (pc[t] = "sleeping" /\ pc'[t] = "loop")
               => run_locals'[t].sleep_time = Min(2 * run_locals[t].sleep_time, 16)]_vars

\* a run loop about to reconnect with the base at 4 s, the last connection
\* of which had been established and was then closed by the gateway
C39_NotResetWitness ==
  \E t \in Tasks :
    /\ pc[t] = "loop"
    /\ run_locals[t].sleep_time = 4
    /\ hist[t].outcome = "close_other"
    /\ ~stop[t]

\* C40: when execute_xdo_sequence has returned, with Ok or with an error, no
\* key it pressed is still held down, in the Windows build (scancodes) and
\* in the other builds (enigo).
C40_NothingHeldOnReturn ==
  xdo.calls > 0 => xdo.held = {}

====
